---- MODULE Spec2Model ----
(***************************************************************************)
(* Model of the trading pipeline: ingestion -> channel A -> strategy ->    *)
(* channel B -> execution, with the RiskManager fed by execution.          *)
(*                                                                         *)
(* Time: `clock` is the monotonic Instant clock in whole seconds; a tick   *)
(* is delivered at the instant the exchange stamps it, so its timestamp is *)
(* the clock in milliseconds.  Momentum is an exact rational               *)
(* <<numerator, denominator>> (the code uses f64).  Money handed to the    *)
(* RiskManager is in milli-dollars and converted to cents by truncation.   *)
(***************************************************************************)
EXTENDS Integers, Sequences, FiniteSets, TLC

(* ---------------------------- model bounds ----------------------------- *)
\* Model capacity of each ring buffer (RingBuffer::new(1024) in the program).
Capacity == 2
\* Number of messages the tick source delivers in a run.
MaxTicks == 3
\* Number of update_pnl calls each concurrent caller issues (SpecRisk).
MaxCalls == 2
\* Longest price history handed to calculate_momentum (SpecMomentum).
MaxHist == 3
MaxRefresh == 2
MaxConnectFailures == 2

(* --------------------------- input domains ----------------------------- *)
\* Exchange symbols the tick source delivers.
TickSymbols == {"BTCUSDT"}
\* Tick prices in cents.
TickPrices == {1000, 1010}
\* Polymarket price-change prices in cents.
PolyPrices == {55}
\* Instants (s) at which the stages observe the monotonic clock.
ClockPoints == {0, 5, 719, 720, 2700}
\* Order-book quotes <<bid, ask>> in milli-dollars.
Books == {<<580, 620>>, <<680, 700>>}
\* P&L deltas, in milli-dollars, handed to update_pnl by concurrent callers.
Deltas == {9990, 10, -9990, -15}
\* Concurrent callers of the RiskManager.
Callers == {"w1", "w2"}
\* SpecCache: keys of the MarketCache.
CacheAssets == {"BTC", "ETH"}
\* SpecMomentum: snapshot prices (cents) and timestamps / query instants (ms).
MomPrices == {0, 100, 200}
MomTimes == {0, 100000, 400000, 700000}

(* -------------------------- program constants -------------------------- *)
MOMENTUM_WINDOW_60MIN_SECS == 600
MOMENTUM_WINDOW_15MIN_SECS == 180
TRADE_SIZE_DOLLARS == 10
MAX_POSITIONS == 3
COOLDOWN_SECS == 5
STOP_LOSS_ACTIVE_15MIN_SECS == 180
STOP_LOSS_ACTIVE_60MIN_SECS == 900
MARKET_DURATION_15MIN_SECS == 900
MARKET_DURATION_60MIN_SECS == 3600
RETENTION_MS == 900000
PROFIT_THRESHOLD_CENTS == 1000
LOSS_THRESHOLD_CENTS == -1000
\* Thresholds as exact fractions <<numerator, denominator>>.
MOMENTUM_THRESHOLD_60MIN == <<1, 2000>>
MOMENTUM_THRESHOLD_15MIN == <<1, 1000>>
STOP_LOSS_THRESHOLD_15MIN == <<1, 500>>
STOP_LOSS_THRESHOLD_60MIN == <<3, 1000>>
\* prices.rs filters, in milli-dollars / exact fractions.
MAX_ENTRY_PRICE == 650
MIN_UPSIDE == <<30, 100>>
MAX_SPREAD == <<10, 100>>

Assets == 1..4
NoTime == -1

VARIABLES
    chanA,              \* ingestion -> strategy ring buffer contents, oldest first
    chanB,              \* strategy -> execution ring buffer contents, oldest first
    price_histories,    \* run_strategy: asset -> VecDeque<PriceSnapshot>
    open_positions,     \* run_strategy: Vec<Position>
    last_trade_times,   \* run_strategy: asset -> Instant of last entry, or NoTime
    clock,              \* Instant::now(), seconds
    session_pnl_cents,  \* RiskManager accumulator
    has_client,         \* run_execution: poly_client.is_some()
    nTicks,             \* messages delivered by the tick source so far
    acceptedA,          \* history: ticks accepted by successful pushes on A
    poppedA,            \* history: ticks returned by successful pops on A
    acceptedB,          \* history: instructions accepted by successful pushes on B
    poppedB,            \* history: instructions returned by successful pops on B
    lastTick,           \* history: what the last run_strategy iteration did
    lastExec,           \* history: what the last run_execution iteration did
    calls,              \* SpecRisk: caller -> deltas it still has to submit
    ret,                \* SpecRisk: caller -> result of its last RiskManager call
    applied,            \* SpecRisk: history of the cents added by completed calls
    script,             \* SpecScript: the scripted tick feed still to be delivered
    mom,                \* SpecMomentum: calculate_momentum's arguments and result
    seenEnv,            \* history: what the collaborators answered the last execution
    mc,                 \* SpecCache: the MarketCache, its updater and its reader
    conn,               \* SpecConn: run_ingestion's two WebSocket connections
    flt,                \* SpecExec: passes_value_filters' arguments and result
    rs,                 \* SpecResolve: one instruction from encoding to its token
    nodb                \* SpecNoDb: the loop state of run_strategy_no_db

obsVars == <<seenEnv, mc, conn, flt, rs, nodb>>
pipeVars == <<chanA, chanB, price_histories, open_positions, last_trade_times,
              clock, has_client, nTicks, acceptedA, poppedA, acceptedB, poppedB,
              lastTick, lastExec, script, mom, obsVars>>
riskVars == <<calls, ret, applied>>
vars == <<pipeVars, session_pnl_cents, riskVars>>

(* ------------------------------ helpers -------------------------------- *)
Min(S) == CHOOSE x \in S : \A y \in S : x <= y
Abs(x) == IF x >= 0 THEN x ELSE -x
\* u64::saturating_sub / Duration::saturating_sub
SatSub(a, b) == IF a >= b THEN a - b ELSE 0
Range(s) == {s[i] : i \in 1..Len(s)}
RECURSIVE GCD(_, _)
GCD(a, b) == IF b = 0 THEN a ELSE GCD(b, a % b)
\* The fraction n/d (d > 0) in lowest terms.
Frac(n, d) == LET g == GCD(Abs(n), d) IN <<n \div g, d \div g>>

(* ------------------- rtrb ring buffer (SPSC channel) ------------------- *)
\* Producer::push: Ok and the item queued at the back, or Err(Full) and the
\* buffer untouched.
PushOk(ch) == Len(ch) < Capacity
Push(ch, item) == IF PushOk(ch) THEN Append(ch, item) ELSE ch
\* Faulty variant of PopOk: pop yields an element only from a full buffer.
PopOkOnlyFull(ch) == Len(ch) = Capacity
\* Consumer::pop: Ok(front item) unless the buffer is empty.
PopOk(ch) == ch # <<>>
PopItem(ch) == Head(ch)
PopRest(ch) == Tail(ch)

(* ------------------------------ risk.rs -------------------------------- *)
\* Faulty variant of calculate_tier: the thresholds themselves excluded.
calculate_tier_strict(pnl_cents) ==
    IF pnl_cents > PROFIT_THRESHOLD_CENTS THEN "Aggressive"
    ELSE IF pnl_cents < LOSS_THRESHOLD_CENTS THEN "Conservative"
    ELSE "Moderate"

\* RiskManager::calculate_tier
calculate_tier(pnl_cents) ==
    IF pnl_cents >= PROFIT_THRESHOLD_CENTS THEN "Aggressive"
    ELSE IF pnl_cents <= LOSS_THRESHOLD_CENTS THEN "Conservative"
    ELSE "Moderate"

\* RiskTier::trade_size
trade_size(tier) ==
    CASE tier = "Conservative" -> 2
      [] tier = "Moderate" -> 5
      [] tier = "Aggressive" -> 10

\* RiskManager::current_tier: load the accumulator and classify it.
current_tier(pnl) == calculate_tier(pnl)

\* `(pnl_dollars * 100.0) as i64`: the float-to-integer cast truncates toward
\* zero.  The argument is in milli-dollars.
DollarsToCents(milli) ==
    IF milli >= 0 THEN (milli * 100) \div 1000 ELSE -(((-milli) * 100) \div 1000)

\* fetch_add(pnl_cents) + pnl_cents: the accumulator after the atomic addition.
FetchAddTotal(old, pnl_cents) == old + pnl_cents

\* Faulty variant of update_pnl: the tier of the total before the addition.
update_pnl_old_tier(old, milli) ==
    LET pnl_cents == DollarsToCents(milli)
    IN  [total |-> FetchAddTotal(old, pnl_cents), tier |-> calculate_tier(old),
         cents |-> pnl_cents]

\* RiskManager::update_pnl, one atomic read-modify-write; the result is the
\* accumulator's new value and the tier the call returns.
update_pnl(old, milli) ==
    LET pnl_cents == DollarsToCents(milli)
        new_total == FetchAddTotal(old, pnl_cents)
    IN  [total |-> new_total, tier |-> calculate_tier(new_total), cents |-> pnl_cents]

(* ---------------------------- ingestion.rs ----------------------------- *)
\* get_symbol_id; 0 stands for None.
get_symbol_id(symbol_str) ==
    CASE symbol_str = "BTCUSDT" -> 1
      [] symbol_str = "ETHUSDT" -> 2
      [] symbol_str = "SOLUSDT" -> 3
      [] symbol_str = "XRPUSDT" -> 4
      [] OTHER -> 0

\* Milliseconds since the epoch at instant `now` (the run starts at the epoch).
WallClockMs(now) == now * 1000

MarketUpdate(symbol, price, ts) == [symbol |-> symbol, price |-> price, ts |-> ts]

(* ----------------------------- strategy.rs ----------------------------- *)
PriceSnapshot(price_cents, timestamp_ms) ==
    [price_cents |-> price_cents, timestamp_ms |-> timestamp_ms]

Zero == <<0, 1>>

\* Faulty variant of calculate_momentum: the oldest snapshot of the history,
\* in the window or not.
calculate_momentum_whole_history(history, now_ms, window_ms) ==
    IF history = <<>> THEN Zero
    ELSE LET old == history[1].price_cents
             cur == history[Len(history)].price_cents
         IN  IF old > 0 THEN Frac(cur - old, old) ELSE Zero

\* calculate_momentum: (current - oldest in window) / oldest, as a fraction.
calculate_momentum(history, now_ms, window_ms) ==
    IF history = <<>> THEN Zero
    ELSE LET cutoff == SatSub(now_ms, window_ms)
             inWin == {i \in 1..Len(history) : history[i].timestamp_ms >= cutoff}
         IN  IF inWin = {} THEN Zero
             ELSE LET old == history[Min(inWin)].price_cents
                      cur == history[Len(history)].price_cents
                  IN  IF old > 0 THEN Frac(cur - old, old) ELSE Zero

\* Prune loop: pop the front while it is older than the cutoff.
RECURSIVE PruneFront(_, _)
PruneFront(h, cutoff_ms) ==
    IF h # <<>> /\ Head(h).timestamp_ms < cutoff_ms
    THEN PruneFront(Tail(h), cutoff_ms)
    ELSE h

\* push_back the snapshot, then prune to the last 15 minutes.
AddToHistory(h, update) ==
    PruneFront(Append(h, PriceSnapshot(update.price, update.ts)),
               SatSub(update.ts, RETENTION_MS))

\* Fraction comparisons (denominators are positive).
FracAbsGe(m, t) == Abs(m[1]) * t[2] >= t[1] * m[2]
FracDiffGe(a, b, t) == (a[1] * b[2] - b[1] * a[2]) * t[2] >= t[1] * a[2] * b[2]

MarketDuration(market_type) ==
    IF market_type = 60 THEN MARKET_DURATION_60MIN_SECS ELSE MARKET_DURATION_15MIN_SECS
DangerZone(market_type) ==
    IF market_type = 60 THEN STOP_LOSS_ACTIVE_60MIN_SECS ELSE STOP_LOSS_ACTIVE_15MIN_SECS
\* Faulty variant of StopLossThreshold: the two classes' thresholds exchanged.
StopLossThresholdSwapped(market_type) ==
    IF market_type = 60 THEN STOP_LOSS_THRESHOLD_15MIN ELSE STOP_LOSS_THRESHOLD_60MIN
StopLossThreshold(market_type) ==
    IF market_type = 60 THEN STOP_LOSS_THRESHOLD_60MIN ELSE STOP_LOSS_THRESHOLD_15MIN

\* Faulty variant of InSafeZone: a position past its market's end is skipped.
InSafeZoneOrExpired(pos, now) ==
    \/ now - pos.entry_time > MarketDuration(pos.market_type)
    \/ SatSub(MarketDuration(pos.market_type), now - pos.entry_time)
          > DangerZone(pos.market_type)

\* Faulty variant of InSafeZone: the boundary instant counted as safe.
InSafeZoneInclusive(pos, now) ==
    SatSub(MarketDuration(pos.market_type), now - pos.entry_time)
        >= DangerZone(pos.market_type)

\* `time_until_expiry > danger_zone`: the position is still in its safe zone.
InSafeZone(pos, now) ==
    SatSub(MarketDuration(pos.market_type), now - pos.entry_time)
        > DangerZone(pos.market_type)

\* Faulty variant of ReversalTriggered: the reversal taken with the sides
\* exchanged.
ReversalTriggeredSwapped(pos, current_momentum) ==
    IF pos.side = 0
    THEN FracDiffGe(current_momentum, pos.entry_momentum, StopLossThreshold(pos.market_type))
    ELSE FracDiffGe(pos.entry_momentum, current_momentum, StopLossThreshold(pos.market_type))

\* `reversal >= threshold` for a position, given the current momentum.
ReversalTriggered(pos, current_momentum) ==
    IF pos.side = 0
    THEN FracDiffGe(pos.entry_momentum, current_momentum, StopLossThreshold(pos.market_type))
    ELSE FracDiffGe(current_momentum, pos.entry_momentum, StopLossThreshold(pos.market_type))

TradeInstruction(symbol, side, price_cents, size) ==
    [symbol |-> symbol, side |-> side, price_cents |-> price_cents, size |-> size]

SellInstruction(pos) ==
    TradeInstruction(pos.asset_symbol * 100 + pos.market_type + 1000,
                     IF pos.side = 0 THEN 1 ELSE 0, 40, TRADE_SIZE_DOLLARS)

EntryInstruction(asset_symbol, market_type, side) ==
    TradeInstruction(asset_symbol * 100 + market_type, side, 50, TRADE_SIZE_DOLLARS)

Position(asset_symbol, market_type, side, entry_momentum, now) ==
    [asset_symbol |-> asset_symbol, market_type |-> market_type, side |-> side,
     entry_momentum |-> entry_momentum, entry_time |-> now, entry_price_cents |-> 50]

\* Faulty variant of SameAsset: every open position is checked on every tick.
SameAssetAny(pos, asset_symbol) == TRUE

\* `pos.asset_symbol != asset_symbol` makes the stop-loss loop `continue`.
SameAsset(pos, asset_symbol) == pos.asset_symbol = asset_symbol

\* Whether a triggered position is put on positions_to_close, given the
\* result of pushing its exit instruction: the index is pushed before, and
\* whatever the result of, producer.push.
MarkedToClose(pushed) == TRUE

\* The stop-loss loop over open_positions from index idx on.  acc carries the
\* producer's buffer, positions_to_close, and the history of what was
\* evaluated and pushed.
RECURSIVE StopLossLoop(_, _, _, _, _, _, _)
StopLossLoop(positions, idx, asset_symbol, momentum_60, momentum_15, now, acc) ==
    IF idx > Len(positions) THEN acc
    ELSE LET pos == positions[idx]
             current_momentum == IF pos.market_type = 60 THEN momentum_60 ELSE momentum_15
             next(a) == StopLossLoop(positions, idx + 1, asset_symbol,
                                     momentum_60, momentum_15, now, a)
         IN  IF ~SameAsset(pos, asset_symbol) THEN next(acc)
             ELSE IF InSafeZone(pos, now) THEN next(acc)
             ELSE IF ReversalTriggered(pos, current_momentum)
             THEN LET pushed == PushOk(acc.chan)
                  IN  next([chan |-> Push(acc.chan, SellInstruction(pos)),
                            pushes |-> Append(acc.pushes,
                                         [instr |-> SellInstruction(pos), ok |-> pushed]),
                            to_close |-> IF MarkedToClose(pushed)
                                         THEN acc.to_close \cup {idx} ELSE acc.to_close,
                            evaluated |-> Append(acc.evaluated, pos),
                            exits |-> Append(acc.exits, [pos |-> pos, pushed |-> pushed])])
             ELSE next([acc EXCEPT !.evaluated = Append(@, pos)])

\* open_positions.remove(idx) for every idx of positions_to_close.
RemoveClosed(positions, to_close) ==
    LET keep == {i \in 1..Len(positions) : i \notin to_close}
        RECURSIVE Build(_)
        Build(i) == IF i > Len(positions) THEN <<>>
                    ELSE IF i \in keep THEN <<positions[i]>> \o Build(i + 1)
                    ELSE Build(i + 1)
    IN  Build(1)

AssetPositions(positions, asset_symbol) ==
    Cardinality({i \in 1..Len(positions) : positions[i].asset_symbol = asset_symbol})

\* Faulty variant of TrackEntry: the position tracked whatever push returns.
TrackEntryAlways(pushed) == TRUE

\* A position is tracked, and the cooldown started, only inside
\* `if let Ok(()) = producer.push(instruction)`.
TrackEntry(pushed) == pushed

\* Faulty variant of EntrySide: Down on a rise, Up otherwise.
EntrySideInverted(momentum) == IF momentum[1] > 0 THEN 1 ELSE 0

\* `if momentum > 0.0 { 0 } else { 1 }`.
EntrySide(momentum) == IF momentum[1] > 0 THEN 0 ELSE 1

\* One entry block (60- or 15-minute): st carries chan, positions, ltt.
EntryBlock(st, asset_symbol, market_type, momentum, threshold, now) ==
    IF ~FracAbsGe(momentum, threshold) THEN [st EXCEPT !.result = "none"]
    ELSE LET side == EntrySide(momentum)
             pushed == PushOk(st.chan)
             instruction == EntryInstruction(asset_symbol, market_type, side)
             chan2 == Push(st.chan, instruction)
             pushes2 == Append(st.pushes, [instr |-> instruction, ok |-> pushed])
         IN  IF TrackEntry(pushed)
             THEN [chan |-> chan2, pushes |-> pushes2,
                   positions |-> Append(st.positions,
                                   Position(asset_symbol, market_type, side, momentum, now)),
                   ltt |-> [st.ltt EXCEPT ![asset_symbol] = now],
                   result |-> IF pushed THEN "ok" ELSE "full"]
             ELSE [st EXCEPT !.chan = chan2, !.pushes = pushes2,
                              !.result = IF pushed THEN "ok" ELSE "full"]

\* Faulty variant of RecountedPositions: the count taken before the 60-minute
\* entry is used again.
StalePositions(before60, after60) == before60

\* The positions the 15-minute block counts: open_positions as the 60-minute
\* block left it (`asset_positions` is computed again).
RecountedPositions(before60, after60) == after60

\* Faulty variant of CountedForLimit: the positions as they were before the
\* stop-loss removals.
CountedBeforeExits(before, remaining) == before

\* The positions the limit check counts: open_positions after
\* positions_to_close was removed from it.
CountedForLimit(before, remaining) == remaining

\* What an iteration that did not reach the evaluation records.
SkippedLog(asset_symbol, positions, now) ==
    [asset |-> asset_symbol, known |-> FALSE, evaluated |-> <<>>,
     exits |-> <<>>, before |-> positions, after_exits |-> positions,
     gated |-> FALSE, entry60 |-> "none", entry15 |-> "none",
     ltt_before |-> NoTime, now |-> now, pushes |-> <<>>,
     momentum_60 |-> Zero, momentum_15 |-> Zero]

\* Faulty variant of SkipUnknown: the positions are dropped with the update.
SkipUnknownClearing(asset_symbol, histories, positions, ltt, chan, now) ==
    [histories |-> histories, positions |-> <<>>, ltt |-> ltt, chan |-> chan,
     log |-> SkippedLog(asset_symbol, positions, now)]

\* `None => continue`: an update whose symbol has no history is skipped.
SkipUnknown(asset_symbol, histories, positions, ltt, chan, now) ==
    [histories |-> histories, positions |-> positions, ltt |-> ltt, chan |-> chan,
     log |-> SkippedLog(asset_symbol, positions, now)]

\* One iteration of run_strategy's loop on a popped update: the state of the
\* loop afterwards and the record of what it did.
StrategyTick(update, histories, positions, ltt, chan, now) ==
    LET asset_symbol == update.symbol
    IN  IF asset_symbol \notin DOMAIN histories
        THEN SkipUnknown(asset_symbol, histories, positions, ltt, chan, now)
        ELSE
        LET h == AddToHistory(histories[asset_symbol], update)
            now_ms == update.ts
            momentum_60 == calculate_momentum(h, now_ms, MOMENTUM_WINDOW_60MIN_SECS * 1000)
            momentum_15 == calculate_momentum(h, now_ms, MOMENTUM_WINDOW_15MIN_SECS * 1000)
            sl == StopLossLoop(positions, 1, asset_symbol, momentum_60, momentum_15, now,
                               [chan |-> chan, pushes |-> <<>>, to_close |-> {},
                                evaluated |-> <<>>, exits |-> <<>>])
            remaining == RemoveClosed(positions, sl.to_close)
            cooling == /\ ltt[asset_symbol] # NoTime
                       /\ now - ltt[asset_symbol] < COOLDOWN_SECS
            gated == cooling \/ AssetPositions(CountedForLimit(positions, remaining),
                                                asset_symbol) >= MAX_POSITIONS
            st0 == [chan |-> sl.chan, pushes |-> sl.pushes, positions |-> remaining,
                    ltt |-> ltt, result |-> "none"]
            st60 == IF gated THEN st0
                    ELSE EntryBlock(st0, asset_symbol, 60, momentum_60,
                                    MOMENTUM_THRESHOLD_60MIN, now)
            st15 == IF gated \/ AssetPositions(RecountedPositions(st0.positions, st60.positions),
                                                 asset_symbol) >= MAX_POSITIONS
                    THEN [st60 EXCEPT !.result = "none"]
                    ELSE EntryBlock(st60, asset_symbol, 15, momentum_15,
                                    MOMENTUM_THRESHOLD_15MIN, now)
        IN  [histories |-> [histories EXCEPT ![asset_symbol] = h],
             positions |-> st15.positions, ltt |-> st15.ltt, chan |-> st15.chan,
             log |-> [asset |-> asset_symbol, known |-> TRUE, evaluated |-> sl.evaluated,
                      exits |-> sl.exits, before |-> positions, after_exits |-> remaining,
                      gated |-> gated, entry60 |-> st60.result, entry15 |-> st15.result,
                      ltt_before |-> ltt[asset_symbol], now |-> now,
                      pushes |-> st15.pushes,
                      momentum_60 |-> momentum_60, momentum_15 |-> momentum_15]]

\* Faulty variant of NoDbAtLimit: one position more is let through.
NoDbAtLimitOffByOne(asset_positions) == asset_positions > MAX_POSITIONS

\* `if asset_positions >= MAX_POSITIONS { continue; }` of run_strategy_no_db.
NoDbAtLimit(asset_positions) == asset_positions >= MAX_POSITIONS

\* What an iteration of run_strategy_no_db records: the entry decisions.
NoDbLog(asset_symbol, known, gated, entry60, entry15, pushes) ==
    [asset |-> asset_symbol, known |-> known, gated |-> gated,
     entry60 |-> entry60, entry15 |-> entry15, pushes |-> pushes]

\* One iteration of run_strategy_no_db's loop on a popped update: history,
\* momentum, cooldown, limit and the two entry blocks; no stop-loss loop and
\* no removal from open_positions.
NoDbTick(update, histories, positions, ltt, chan, now) ==
    LET asset_symbol == update.symbol
    IN  IF asset_symbol \notin DOMAIN histories
        THEN [histories |-> histories, positions |-> positions, ltt |-> ltt, chan |-> chan,
              log |-> NoDbLog(asset_symbol, FALSE, FALSE, "none", "none", <<>>)]
        ELSE
        LET h == AddToHistory(histories[asset_symbol], update)
            now_ms == update.ts
            momentum_60 == calculate_momentum(h, now_ms, MOMENTUM_WINDOW_60MIN_SECS * 1000)
            momentum_15 == calculate_momentum(h, now_ms, MOMENTUM_WINDOW_15MIN_SECS * 1000)
            cooling == /\ ltt[asset_symbol] # NoTime
                       /\ now - ltt[asset_symbol] < COOLDOWN_SECS
            gated == cooling \/ NoDbAtLimit(AssetPositions(positions, asset_symbol))
            st0 == [chan |-> chan, pushes |-> <<>>, positions |-> positions,
                    ltt |-> ltt, result |-> "none"]
            st60 == IF gated THEN st0
                    ELSE EntryBlock(st0, asset_symbol, 60, momentum_60,
                                    MOMENTUM_THRESHOLD_60MIN, now)
            st15 == IF gated \/ AssetPositions(st60.positions, asset_symbol) >= MAX_POSITIONS
                    THEN [st60 EXCEPT !.result = "none"]
                    ELSE EntryBlock(st60, asset_symbol, 15, momentum_15,
                                    MOMENTUM_THRESHOLD_15MIN, now)
        IN  [histories |-> [histories EXCEPT ![asset_symbol] = h],
             positions |-> st15.positions, ltt |-> st15.ltt, chan |-> st15.chan,
             log |-> NoDbLog(asset_symbol, TRUE, gated, st60.result, st15.result,
                             st15.pushes)]

(* ------------------------------ prices.rs ------------------------------ *)
\* Faulty variant of passes_value_filters: a price at the limit is rejected.
passes_value_filters_inclusive(entry_price, bid, ask) ==
    IF entry_price >= MAX_ENTRY_PRICE THEN "price too high"
    ELSE IF (IF entry_price <= 0 \/ entry_price >= 1000 THEN TRUE
             ELSE (1000 - entry_price) * MIN_UPSIDE[2] < MIN_UPSIDE[1] * entry_price)
         THEN "upside too low"
    ELSE IF (IF bid <= 0 THEN TRUE
             ELSE (ask - bid) * MAX_SPREAD[2] > MAX_SPREAD[1] * bid)
         THEN "spread too wide"
    ELSE "ok"

\* passes_value_filters on milli-dollar prices: "ok" or the rejection reason.
passes_value_filters(entry_price, bid, ask) ==
    IF entry_price > MAX_ENTRY_PRICE THEN "price too high"
    ELSE IF (IF entry_price <= 0 \/ entry_price >= 1000 THEN TRUE
             ELSE (1000 - entry_price) * MIN_UPSIDE[2] < MIN_UPSIDE[1] * entry_price)
         THEN "upside too low"
    ELSE IF (IF bid <= 0 THEN TRUE
             ELSE (ask - bid) * MAX_SPREAD[2] > MAX_SPREAD[1] * bid)
         THEN "spread too wide"
    ELSE "ok"

(* ----------------------------- execution.rs ---------------------------- *)
NoBook == <<>>
\* What the collaborators may answer for one instruction: the cache lookup,
\* the token resolution, the order-book fetch and place_order.
ExecEnv(found_market, token_found, book, place_ok) ==
    [found_market |-> found_market, token_found |-> token_found,
     book |-> book, place_ok |-> place_ok]
ExecEnvs ==
    {ExecEnv(FALSE, FALSE, NoBook, FALSE), ExecEnv(TRUE, FALSE, NoBook, FALSE),
     ExecEnv(TRUE, TRUE, NoBook, FALSE)}
    \cup {ExecEnv(TRUE, TRUE, b, ok) : b \in Books, ok \in BOOLEAN}
NoOrder == [side |-> "NONE", size |-> 0, price |-> 0]
\* Order books of the observed runs: the two above, a wide spread, no bid,
\* and quotes at the price limit.
ObservedBooks == Books \cup {<<500, 600>>, <<0, 600>>, <<640, 650>>, <<640, 651>>, <<600, 660>>}
ObservedEnvs ==
    {ExecEnv(FALSE, FALSE, NoBook, FALSE), ExecEnv(TRUE, FALSE, NoBook, FALSE),
     ExecEnv(TRUE, TRUE, NoBook, FALSE)}
    \cup {ExecEnv(TRUE, TRUE, b, ok) : b \in ObservedBooks, ok \in BOOLEAN}
NoEnv == ExecEnv(FALSE, FALSE, NoBook, FALSE)

\* Projected profit `size / (price_cents / 100) - size`, in milli-dollars.
ProjectedProfit(trade) ==
    (trade.size * 100000) \div trade.price_cents - trade.size * 1000

\* Faulty variant of ExecOutcome: the lookup goes on without a client.
ExecOutcomeNoClientCheck(client, found_market, token_found, book, place_ok) ==
    IF ~found_market THEN "no_market"
    ELSE IF ~token_found THEN "no_token"
    ELSE IF book = NoBook THEN "no_book"
    ELSE IF passes_value_filters(book[2], book[1], book[2]) # "ok" THEN "filtered"
    ELSE IF ~place_ok THEN "order_failed"
    ELSE "submitted"

\* How one instruction ends in the LIVE_MODE branch, given what the
\* collaborators answer.
ExecOutcome(client, found_market, token_found, book, place_ok) ==
    IF ~client THEN "no_client"
    ELSE IF ~found_market THEN "no_market"
    ELSE IF ~token_found THEN "no_token"
    ELSE IF book = NoBook THEN "no_book"
    ELSE IF passes_value_filters(book[2], book[1], book[2]) # "ok" THEN "filtered"
    ELSE IF ~place_ok THEN "order_failed"
    ELSE "submitted"

\* What passes_value_filters answered for the instruction, "none" when the
\* iteration ended before the filters.
FilterVerdict(outcome, book) ==
    IF outcome \in {"filtered", "order_failed", "submitted"}
    THEN passes_value_filters(book[2], book[1], book[2]) ELSE "none"

\* Faulty variant of PnlDelta: nothing is added unless an order was placed.
PnlDeltaOnSubmit(trade, outcome) ==
    IF outcome = "submitted" THEN ProjectedProfit(trade) ELSE 0

\* The P&L delta run_execution hands to update_pnl for an instruction with
\* the given outcome: `profit`, the projection from the price hint, always.
PnlDelta(trade, outcome) == ProjectedProfit(trade)

\* Faulty variant of CollaboratorCalls: a failed place_order is tried again.
CollaboratorCallsRetry(outcome) ==
    [resolve |-> IF outcome = "no_client" THEN 0 ELSE 1,
     fetch |-> IF outcome \in {"no_client", "no_market", "no_token"} THEN 0 ELSE 1,
     submit |-> IF outcome = "submitted" THEN 1 ELSE IF outcome = "order_failed" THEN 2 ELSE 0]

\* How often one iteration reads the cache, fetches the order book and calls
\* place_order: each call stands once on its path, with no loop around it.
CollaboratorCalls(outcome) ==
    [resolve |-> IF outcome = "no_client" THEN 0 ELSE 1,
     fetch |-> IF outcome \in {"no_client", "no_market", "no_token"} THEN 0 ELSE 1,
     submit |-> IF outcome \in {"submitted", "order_failed"} THEN 1 ELSE 0]

\* The order handed to place_order.
OrderFor(trade, book) ==
    [side |-> IF trade.symbol >= 1000 THEN "SELL" ELSE "BUY",
     size |-> trade.size, price |-> book[2]]

NoIndex == -1
\* Iterator::position / find: the 0-based index of the first element of seq
\* that satisfies Test, NoIndex for None.
FirstIndex(seq, Test(_)) ==
    LET hits == {i \in 1..Len(seq) : Test(seq[i])}
    IN  IF hits = {} THEN NoIndex ELSE Min(hits) - 1

\* Faulty variant of DecodeSymbol: the exit offset is left in the base.
DecodeSymbolKeepsOffset(symbol) ==
    [is_sell |-> symbol >= 1000, asset_id |-> symbol \div 100, market_mins |-> symbol % 100]

\* run_execution's decoding of trade.symbol.
DecodeSymbol(symbol) ==
    LET is_sell == symbol >= 1000
        base_symbol == IF is_sell THEN symbol - 1000 ELSE symbol
    IN  [is_sell |-> is_sell, asset_id |-> base_symbol \div 100,
         market_mins |-> base_symbol % 100]

AssetNames == {"BTC", "ETH", "SOL", "XRP"}
AssetName(asset_id) ==
    CASE asset_id = 1 -> "BTC"
      [] asset_id = 2 -> "ETH"
      [] asset_id = 3 -> "SOL"
      [] asset_id = 4 -> "XRP"
      [] OTHER -> "UNKNOWN"
MarketTypeName(market_mins) ==
    CASE market_mins = 15 -> "15-MIN"
      [] market_mins = 60 -> "60-MIN"
      [] OTHER -> "UNKNOWN"

\* cache.get(asset_name): the asset's market list, empty for None.
CacheGet(cache, asset_name) ==
    IF asset_name \in DOMAIN cache THEN cache[asset_name] ELSE <<>>

\* Faulty variant of FindMarket: a DAILY market is taken before an exact one.
FindMarketDailyFirst(markets, market_type) ==
    LET daily == FirstIndex(markets, LAMBDA m : m.market_type = "DAILY")
    IN  IF daily # NoIndex THEN daily
        ELSE FirstIndex(markets, LAMBDA m : m.market_type = market_type)

\* The lookup in the asset's list: the first market of the exact type, and
\* only if there is none the first DAILY one.
FindMarket(markets, market_type) ==
    LET exact == FirstIndex(markets, LAMBDA m : m.market_type = market_type)
    IN  IF exact # NoIndex THEN exact
        ELSE FirstIndex(markets, LAMBDA m : m.market_type = "DAILY")

\* to_ascii_lowercase on the labels that occur.
AsciiLower(label) ==
    CASE label \in {"Up", "UP", "up"} -> "up"
      [] label \in {"Down", "DOWN", "down"} -> "down"
      [] label \in {"Yes", "YES", "yes"} -> "yes"
      [] label \in {"No", "NO", "no"} -> "no"
      [] OTHER -> label
eq_ignore_ascii_case(a, b) == AsciiLower(a) = AsciiLower(b)

\* Faulty variant of TokenIndex: the Yes/No labels are tried first.
TokenIndexSynonymFirst(outcomes, side) ==
    LET target_outcome == IF side = 0 THEN "Up" ELSE "Down"
        alt_outcome == IF side = 0 THEN "Yes" ELSE "No"
        primary == FirstIndex(outcomes, LAMBDA o : eq_ignore_ascii_case(o, target_outcome))
        alt == FirstIndex(outcomes, LAMBDA o : eq_ignore_ascii_case(o, alt_outcome))
    IN  IF alt # NoIndex THEN alt
        ELSE IF primary # NoIndex THEN primary
        ELSE IF side = 0 /\ Len(outcomes) >= 1 THEN 0
        ELSE IF side = 1 /\ Len(outcomes) >= 2 THEN 1
        ELSE NoIndex

\* token_index: position of the Up/Down label, or_else of the Yes/No label,
\* or_else index 0 / 1 by side.
TokenIndex(outcomes, side) ==
    LET target_outcome == IF side = 0 THEN "Up" ELSE "Down"
        alt_outcome == IF side = 0 THEN "Yes" ELSE "No"
        primary == FirstIndex(outcomes, LAMBDA o : eq_ignore_ascii_case(o, target_outcome))
        alt == FirstIndex(outcomes, LAMBDA o : eq_ignore_ascii_case(o, alt_outcome))
    IN  IF primary # NoIndex THEN primary
        ELSE IF alt # NoIndex THEN alt
        ELSE IF side = 0 /\ Len(outcomes) >= 1 THEN 0
        ELSE IF side = 1 /\ Len(outcomes) >= 2 THEN 1
        ELSE NoIndex

\* A CachedMarket as the updater builds it: outcomes and token_ids are both
\* mapped from the market's tokens.
CachedMarket(asset, market_type, condition_id, outcomes) ==
    [asset |-> asset, market_type |-> market_type, condition_id |-> condition_id,
     outcomes |-> outcomes,
     token_ids |-> [i \in 1..Len(outcomes) |-> <<asset, condition_id, i - 1>>]]
NoMarket == [asset |-> "UNKNOWN", market_type |-> "UNKNOWN", condition_id |-> NoIndex,
             outcomes |-> <<>>, token_ids |-> <<>>]
NoToken == <<>>

(* ------------------------------ actions -------------------------------- *)
NoTickLog == [asset |-> 0, known |-> FALSE, evaluated |-> <<>>, exits |-> <<>>,
              before |-> <<>>, after_exits |-> <<>>, gated |-> FALSE,
              entry60 |-> "none", entry15 |-> "none", ltt_before |-> NoTime, now |-> 0,
              pushes |-> <<>>, momentum_60 |-> Zero, momentum_15 |-> Zero]
NoExecLog == [outcome |-> "none", order |-> NoOrder, tier_before |-> "Moderate",
              pnl_before |-> 0, cents |-> 0, tier_after |-> "Moderate", filter |-> "none",
              calls |-> [resolve |-> 0, fetch |-> 0, submit |-> 0]]

InitPipe ==
    /\ chanA = <<>>
    /\ chanB = <<>>
    /\ price_histories = [a \in Assets |-> <<>>]
    /\ open_positions = <<>>
    /\ last_trade_times = [a \in Assets |-> NoTime]
    /\ clock = 0
    /\ nTicks = 0
    /\ acceptedA = <<>>
    /\ poppedA = <<>>
    /\ acceptedB = <<>>
    /\ poppedB = <<>>
    /\ lastTick = NoTickLog
    /\ lastExec = NoExecLog

InitRisk ==
    /\ session_pnl_cents = 0
    /\ calls = [c \in Callers |-> 0]
    /\ ret = [c \in Callers |-> [loaded |-> 0, tier |-> "Moderate", prev |-> 0,
                                  cents |-> 0, kind |-> "none"]]
    /\ applied = 0

\* No scripted feed and no momentum query.
NoScript == [name |-> "none", ticks |-> <<>>]
NoMom == [history |-> <<>>, now_ms |-> 0, window_ms |-> 0, result |-> <<>>]
\* The cache as MarketCache::default() leaves it, updater and reader idle.
EmptyCache == [a \in CacheAssets |-> 0]
InitCacheState ==
    [cache |-> EmptyCache, refreshes |-> 0, last |-> "none",
     upd |-> [pc |-> "idle", new_cache |-> EmptyCache, todo |-> {}],
     rd |-> [pc |-> "idle", seen |-> <<>>], readers |-> 0]
\* Both streams connected, the select loop running.
Connected == [binance |-> "connected", poly |-> "connected", failures |-> 0, task |-> "running"]
NoFilter == [entry_price |-> 0, bid |-> 0, ask |-> 0, result |-> "none"]
NoResolve == [pc |-> "none"]
NoNoDb == [running |-> FALSE]
InitObs ==
    /\ seenEnv = NoEnv /\ mc = InitCacheState /\ conn = Connected /\ flt = NoFilter
    /\ rs = NoResolve /\ nodb = NoNoDb
InitAux == script = NoScript /\ mom = NoMom /\ InitObs

Init == InitPipe /\ InitRisk /\ InitAux /\ has_client \in BOOLEAN

\* Faulty variant of IngestPush: a push that waits for room in the buffer.
IngestPushBlocking(update) ==
    /\ PushOk(chanA)
    /\ chanA' = Append(chanA, update)
    /\ acceptedA' = Append(acceptedA, update)

\* run_ingestion pushing one update onto channel A (a full buffer drops it).
IngestPush(update) ==
    /\ chanA' = Push(chanA, update)
    /\ acceptedA' = IF PushOk(chanA) THEN Append(acceptedA, update) ELSE acceptedA

\* run_ingestion, Binance arm: one trade message.
IngestBinanceMsg ==
    /\ nTicks < MaxTicks
    /\ \E s \in TickSymbols, p \in TickPrices :
          LET symbol == get_symbol_id(s)
          IN  IF symbol # 0
              THEN IngestPush(MarketUpdate(symbol, p, WallClockMs(clock)))
              ELSE UNCHANGED <<chanA, acceptedA>>
    /\ nTicks' = nTicks + 1

IngestBinance ==
    /\ IngestBinanceMsg
    /\ UNCHANGED <<chanB, price_histories, open_positions, last_trade_times, clock,
                   has_client, poppedA, acceptedB, poppedB, lastTick, lastExec,
                   session_pnl_cents, riskVars, script, mom, obsVars>>

\* run_ingestion, Polymarket arm: a price change, pushed as symbol 2 with the
\* local wall-clock time.
IngestPolyMsg ==
    /\ nTicks < MaxTicks
    /\ \E p \in PolyPrices : IngestPush(MarketUpdate(2, p, WallClockMs(clock)))
    /\ nTicks' = nTicks + 1

IngestPoly ==
    /\ IngestPolyMsg
    /\ UNCHANGED <<chanB, price_histories, open_positions, last_trade_times, clock,
                   has_client, poppedA, acceptedB, poppedB, lastTick, lastExec,
                   session_pnl_cents, riskVars, script, mom, obsVars>>

\* run_strategy: one loop iteration whose consumer.pop() returns an update;
\* rest is what the pop leaves in channel A.
RunStrategyPop(rest) ==
    /\ PopOk(chanA)
    /\ LET update == PopItem(chanA)
           r == StrategyTick(update, price_histories, open_positions,
                             last_trade_times, chanB, clock)
       IN  /\ chanA' = rest
           /\ poppedA' = Append(poppedA, update)
           /\ price_histories' = r.histories
           /\ open_positions' = r.positions
           /\ last_trade_times' = r.ltt
           /\ chanB' = r.chan
           /\ acceptedB' = acceptedB \o SubSeq(r.chan, Len(chanB) + 1, Len(r.chan))
           /\ lastTick' = r.log

RunStrategyStep(rest) ==
    /\ RunStrategyPop(rest)
    /\ UNCHANGED <<clock, has_client, nTicks, acceptedA, poppedB, lastExec,
                   session_pnl_cents, riskVars, script, mom, obsVars>>

\* Faulty variant of RunStrategy: the update is read without being consumed.
RunStrategyPeek == RunStrategyStep(chanA)

RunStrategy == RunStrategyStep(PopRest(chanA))

\* run_execution: one loop iteration that pops an instruction, the
\* collaborators answering env.
RunExecutionOn(env) ==
    /\ PopOk(chanB)
    /\ LET trade == PopItem(chanB)
           book == env.book
           outcome == ExecOutcome(has_client, env.found_market, env.token_found,
                                  book, env.place_ok)
           old_tier == current_tier(session_pnl_cents)
           r == update_pnl(session_pnl_cents, PnlDelta(trade, outcome))
       IN  /\ chanB' = PopRest(chanB)
           /\ poppedB' = Append(poppedB, trade)
           /\ session_pnl_cents' = r.total
           /\ lastExec' = [outcome |-> outcome,
                           order |-> IF outcome = "submitted"
                                     THEN OrderFor(trade, book) ELSE NoOrder,
                           tier_before |-> old_tier,
                           pnl_before |-> session_pnl_cents,
                           cents |-> r.cents,
                           tier_after |-> r.tier,
                           filter |-> FilterVerdict(outcome, book),
                           calls |-> CollaboratorCalls(outcome)]
    /\ UNCHANGED <<chanA, price_histories, open_positions, last_trade_times, clock,
                   has_client, nTicks, acceptedA, poppedA, acceptedB, lastTick, riskVars,
                   script, mom, mc, conn, flt, rs, nodb>>

RunExecution == \E env \in ExecEnvs : RunExecutionOn(env) /\ UNCHANGED seenEnv

\* The same iteration, the collaborators' answers kept for inspection.
RunExecutionObserved == \E env \in ObservedEnvs : RunExecutionOn(env) /\ seenEnv' = env

\* Time passes.
AdvanceClock ==
    /\ \E t \in ClockPoints : t > clock /\ clock' = t
    /\ UNCHANGED <<chanA, chanB, price_histories, open_positions, last_trade_times,
                   has_client, nTicks, acceptedA, poppedA, acceptedB, poppedB,
                   lastTick, lastExec, session_pnl_cents, riskVars, script, mom, obsVars>>

(* ---------------- concurrent callers of the RiskManager ----------------- *)
\* Faulty variant of FetchAddOperand: a separate load and store, the addition
\* made on the value the caller loaded earlier.
FetchAddOperandStale(c) == ret[c].loaded

\* The accumulator value the read-modify-write of a call by caller c operates
\* on: fetch_add is atomic, so it is the accumulator at that very step.
FetchAddOperand(c) == session_pnl_cents

\* current_tier() by caller c.
RiskRead(c) ==
    /\ ret' = [ret EXCEPT ![c] = [loaded |-> session_pnl_cents,
                                  tier |-> current_tier(session_pnl_cents),
                                  prev |-> session_pnl_cents, cents |-> 0,
                                  kind |-> "read"]]
    /\ UNCHANGED <<pipeVars, session_pnl_cents, calls, applied>>

\* update_pnl(delta) by caller c.
RiskUpdate(c) ==
    /\ calls[c] < MaxCalls
    /\ \E d \in Deltas :
          LET r == update_pnl(FetchAddOperand(c), d)
          IN  /\ session_pnl_cents' = r.total
              /\ applied' = applied + r.cents
              /\ ret' = [ret EXCEPT ![c] = [loaded |-> @.loaded, tier |-> r.tier,
                                            prev |-> session_pnl_cents,
                                            cents |-> r.cents, kind |-> "update"]]
    /\ calls' = [calls EXCEPT ![c] = @ + 1]
    /\ UNCHANGED pipeVars

InitRiskSpec == InitPipe /\ InitRisk /\ InitAux /\ has_client = FALSE
NextRisk == \E c \in Callers : RiskRead(c) \/ RiskUpdate(c)
SpecRisk == InitRiskSpec /\ [][NextRisk]_vars

(* --------------------------- scripted feeds ---------------------------- *)
\* A Binance trade message delivered at instant `at` (s): the update carries
\* the exchange's trade time T, which is lag_ms before the local clock.
BinanceTick(symbol_str, price, at, lag_ms) ==
    [update |-> MarketUpdate(get_symbol_id(symbol_str), price, WallClockMs(at) - lag_ms),
     at |-> at]
\* A Polymarket price change delivered at instant `at`: symbol 2, local time.
PolyTick(price, at) == [update |-> MarketUpdate(2, price, WallClockMs(at)), at |-> at]

\* Scenario 1: BTC constant at 10000 cents, one tick every `step` seconds for
\* 11 minutes, then one tick at 10100.
ScenarioOneSteps == {60, 110, 165}
ScenarioOne(step) ==
    [name |-> "scenario1",
     ticks |-> [k \in 1..(660 \div step + 1) |->
                   BinanceTick("BTCUSDT", 10000, (k - 1) * step, 0)]
               \o <<BinanceTick("BTCUSDT", 10100, 660, 0)>>]

\* Scenario 2: a BTC 15-minute Up position entered at momentum +0.002
\* (10000 -> 10020), then 13 minutes later a tick taking the 3-minute
\* momentum to -0.001 (10000 -> 9990).
ScenarioTwo ==
    [name |-> "scenario2",
     ticks |-> <<BinanceTick("BTCUSDT", 10000, 0, 0), BinanceTick("BTCUSDT", 10020, 60, 0),
                 BinanceTick("BTCUSDT", 10000, 700, 0), BinanceTick("BTCUSDT", 9990, 840, 0)>>]

\* Asset 2 fed by both arms: a Polymarket price change stamped with the local
\* clock and an ETHUSDT trade stamped by the exchange lag_ms earlier, then a
\* trade 900 s later.
FeedLags == {0, 1000}
MixedFeed(lag_ms) ==
    [name |-> "mixed",
     ticks |-> <<PolyTick(55, 100), BinanceTick("ETHUSDT", 55, 100, lag_ms),
                 BinanceTick("ETHUSDT", 55, 1000, 0)>>]

\* Two assets: each rises 1000 -> 1010 at t = 0 in the given order of
\* arrival, then one tick of `last` at t = 720 s.
TwoAssetOrders ==
    {<<"ETHUSDT", "ETHUSDT", "BTCUSDT", "BTCUSDT">>,
     <<"BTCUSDT", "ETHUSDT", "BTCUSDT", "ETHUSDT">>,
     <<"BTCUSDT", "BTCUSDT", "ETHUSDT", "ETHUSDT">>}
TwoAssets(order, last) ==
    [name |-> "two-assets",
     ticks |-> [k \in 1..Len(order) |->
                   BinanceTick(order[k],
                               IF \E j \in 1..(k - 1) : order[j] = order[k] THEN 1010 ELSE 1000,
                               0, 0)]
               \o <<BinanceTick(last, 1000, 720, 0)>>]

Scripts ==
    {ScenarioOne(step) : step \in ScenarioOneSteps}
    \cup {ScenarioTwo}
    \cup {MixedFeed(lag_ms) : lag_ms \in FeedLags}
    \cup {TwoAssets(order, last) : order \in TwoAssetOrders, last \in {"BTCUSDT", "ETHUSDT"}}

InitScript ==
    /\ InitPipe /\ InitRisk /\ has_client = FALSE /\ mom = NoMom /\ InitObs
    /\ script \in Scripts

\* run_ingestion receiving the next message of the script.
ScriptTick ==
    /\ script.ticks # <<>>
    /\ clock' = Head(script.ticks).at
    /\ IngestPush(Head(script.ticks).update)
    /\ nTicks' = nTicks + 1
    /\ script' = [script EXCEPT !.ticks = Tail(@)]
    /\ UNCHANGED <<chanB, price_histories, open_positions, last_trade_times,
                   has_client, poppedA, acceptedB, poppedB, lastTick, lastExec,
                   session_pnl_cents, riskVars, mom, obsVars>>

NextScript == ScriptTick \/ RunStrategy \/ RunExecution
SpecScript == InitScript /\ [][NextScript]_vars

(* --------------- feeds that exercise stop-loss and entries -------------- *)
\* BTC moves 10000 -> `entry` at t = 0, then two updates 20 s apart at
\* `late` and `late + 20`.
StopEntries == {10020, 9980, 10015, 10005, 10004}
StopLates == {680, 700, 2680, 3700}
StopMoves == {<<10000, 9990>>, <<10000, 10010>>, <<10000, 10000>>, <<10000, 9980>>}
StopFeed(entry, late, move) ==
    [name |-> "stop",
     ticks |-> <<BinanceTick("BTCUSDT", 10000, 0, 0), BinanceTick("BTCUSDT", entry, 0, 0),
                 BinanceTick("BTCUSDT", move[1], late, 0),
                 BinanceTick("BTCUSDT", move[2], late + 20, 0)>>]
\* Three BTC positions by t = 10, then a fall at t = 720 that reverses the
\* 15-minute position in its danger zone.
FullThenExit ==
    [name |-> "full-then-exit",
     ticks |-> <<BinanceTick("BTCUSDT", 10000, 0, 0), BinanceTick("BTCUSDT", 10020, 0, 0),
                 BinanceTick("BTCUSDT", 10040, 10, 0), BinanceTick("BTCUSDT", 10040, 700, 0),
                 BinanceTick("BTCUSDT", 10020, 720, 0)>>]
\* Three BTC positions by t = 10, then, after every market has expired, a
\* rise that reverses none of them.
FullAndExpired ==
    [name |-> "full-and-expired",
     ticks |-> <<BinanceTick("BTCUSDT", 10000, 0, 0), BinanceTick("BTCUSDT", 10015, 0, 0),
                 BinanceTick("BTCUSDT", 10025, 10, 0), BinanceTick("BTCUSDT", 10025, 4000, 0),
                 BinanceTick("BTCUSDT", 10040, 4010, 0)>>]
\* Two BTC positions at t = 0, a third at t = 718, and 2 s later, inside the
\* cooldown, a fall that reverses the 15-minute position of t = 0.
ExitInCooldown ==
    [name |-> "exit-in-cooldown",
     ticks |-> <<BinanceTick("BTCUSDT", 10000, 0, 0), BinanceTick("BTCUSDT", 10020, 0, 0),
                 BinanceTick("BTCUSDT", 10020, 700, 0), BinanceTick("BTCUSDT", 10032, 718, 0),
                 BinanceTick("BTCUSDT", 10010, 720, 0)>>]
StopScripts ==
    {StopFeed(entry, late, move) : entry \in StopEntries, late \in StopLates,
                                   move \in StopMoves}
    \cup {FullThenExit, FullAndExpired, ExitInCooldown}
InitStops ==
    /\ InitPipe /\ InitRisk /\ has_client = FALSE /\ mom = NoMom /\ InitObs
    /\ script \in StopScripts
SpecStops == InitStops /\ [][NextScript]_vars

(* ------------------- run_execution and its collaborators --------------- *)
\* Arguments of passes_value_filters, in milli-dollars.
FilterPrices == {-100, 620, 650, 651, 700}
FilterBids == {0, 500, 580}
FilterAsks == {620, 700}
ExecScripts == {ScenarioTwo}
InitExec ==
    /\ InitPipe /\ InitRisk /\ mom = NoMom
    /\ seenEnv = NoEnv /\ mc = InitCacheState /\ conn = Connected
    /\ rs = NoResolve /\ nodb = NoNoDb
    /\ has_client \in BOOLEAN
    /\ script \in ExecScripts
    /\ flt \in {[entry_price |-> p, bid |-> b, ask |-> a, result |-> "none"] :
                    p \in FilterPrices, b \in FilterBids, a \in FilterAsks}

\* One call of passes_value_filters on the drawn arguments.
ApplyFilters ==
    /\ flt.result = "none"
    /\ flt' = [flt EXCEPT !.result = passes_value_filters(flt.entry_price, flt.bid, flt.ask)]
    /\ UNCHANGED <<chanA, chanB, price_histories, open_positions, last_trade_times, clock,
                   has_client, nTicks, acceptedA, poppedA, acceptedB, poppedB, lastTick,
                   lastExec, script, mom, session_pnl_cents, riskVars, seenEnv, mc, conn,
                   rs, nodb>>

NextExec == ScriptTick \/ RunStrategy \/ RunExecutionObserved \/ ApplyFilters
SpecExec == InitExec /\ [][NextExec]_vars

(* --------------- the MarketCache, its updater and its reader ------------ *)
\* The cache maps each asset to the refresh its entries came from, 0 for no
\* entry; a refresh that lists an asset gives it the refresh's number.
FetchResults == {"ok", "unparsable", "api_error", "request_failed"}
otherThanCache ==
    <<chanA, chanB, price_histories, open_positions, last_trade_times, clock,
      has_client, nTicks, acceptedA, poppedA, acceptedB, poppedB, lastTick, lastExec,
      script, mom, session_pnl_cents, riskVars, seenEnv, conn, flt, rs, nodb>>

\* Faulty variant of WriteLockFree: the writer does not wait for readers.
WriteLockIgnoresReaders(readers) == TRUE

\* RwLock::write returns once no read guard is alive.
WriteLockFree(readers) == readers = 0

\* One pass of the updater's loop up to the parsed response: on success the
\* local new_cache starts empty, on any failure the pass only logs.
UpdFetch ==
    /\ mc.upd.pc = "idle"
    /\ mc.refreshes < MaxRefresh
    /\ \E result \in FetchResults, listed \in SUBSET CacheAssets :
          mc' = [mc EXCEPT !.refreshes = @ + 1,
                           !.last = result,
                           !.upd = IF result = "ok"
                                   THEN [pc |-> "building", new_cache |-> EmptyCache,
                                         todo |-> listed]
                                   ELSE @]
    /\ UNCHANGED otherThanCache

\* new_cache.entry(asset).or_default().push(..), on the local map.
UpdInsert ==
    /\ mc.upd.pc = "building"
    /\ \E a \in mc.upd.todo :
          mc' = [mc EXCEPT !.upd.new_cache[a] = mc.refreshes,
                           !.upd.todo = @ \ {a}]
    /\ UNCHANGED otherThanCache

\* `*write_guard = new_cache` under the write lock.
UpdWrite ==
    /\ mc.upd.pc = "building"
    /\ mc.upd.todo = {}
    /\ WriteLockFree(mc.readers)
    /\ mc' = [mc EXCEPT !.cache = mc.upd.new_cache, !.upd.pc = "idle"]
    /\ UNCHANGED otherThanCache

\* run_execution's lookup: market_cache.read(), ..
RdLock ==
    /\ mc.rd.pc = "idle"
    /\ mc' = [mc EXCEPT !.rd = [pc |-> "locked", seen |-> <<>>], !.readers = @ + 1]
    /\ UNCHANGED otherThanCache

\* .. cache.get(asset_name) ..
RdGet ==
    /\ mc.rd.pc = "locked"
    /\ mc' = [mc EXCEPT !.rd = [pc |-> "got", seen |-> Append(@.seen, mc.cache)]]
    /\ UNCHANGED otherThanCache

\* .. the search of the market list, the DAILY fallback included ..
RdFind ==
    /\ mc.rd.pc = "got"
    /\ mc' = [mc EXCEPT !.rd = [pc |-> "found", seen |-> Append(@.seen, mc.cache)]]
    /\ UNCHANGED otherThanCache

\* .. and the read guard dropped at the end of the block.
RdUnlock ==
    /\ mc.rd.pc = "found"
    /\ mc' = [mc EXCEPT !.rd.pc = "idle", !.readers = @ - 1]
    /\ UNCHANGED otherThanCache

InitCache == InitPipe /\ InitRisk /\ InitAux /\ has_client = TRUE
NextCache == UpdFetch \/ UpdInsert \/ UpdWrite \/ RdLock \/ RdGet \/ RdFind \/ RdUnlock
SpecCache == InitCache /\ [][NextCache]_vars

(* ------------ one instruction from its encoding to its token ------------ *)
\* What the instruction is made for, and what the cache holds for its asset.
MarketClasses == {15, 60}
Sides == {0, 1}
MarketLists ==
    {<<>>, <<"60-MIN">>, <<"15-MIN", "60-MIN">>, <<"DAILY", "60-MIN">>,
     <<"DAILY", "15-MIN", "15-MIN">>, <<"DAILY", "DAILY">>, <<"60-MIN", "DAILY", "60-MIN">>}
OutcomeLists ==
    {<<"Up", "Down">>, <<"Down", "Up">>, <<"DOWN", "up">>, <<"Yes", "No">>,
     <<"no", "YES">>, <<"Yes", "Up">>, <<"No", "Down", "Down">>, <<"High", "Low">>,
     <<"High">>, <<>>, <<"Yes", "High", "Down">>}
\* The cache: the drawn markets under the asset's name, one other market
\* under every other name.
CacheWith(asset_name, types, outcomes) ==
    [a \in AssetNames |->
        IF a = asset_name
        THEN [k \in 1..Len(types) |-> CachedMarket(a, types[k], k, outcomes)]
        ELSE <<CachedMarket(a, "60-MIN", 0, outcomes)>>]
otherThanResolve ==
    <<chanA, chanB, price_histories, open_positions, last_trade_times, clock,
      has_client, nTicks, acceptedA, poppedA, acceptedB, poppedB, lastTick, lastExec,
      script, mom, session_pnl_cents, riskVars, seenEnv, mc, conn, flt, nodb>>
InitResolve ==
    /\ InitPipe /\ InitRisk /\ has_client = TRUE /\ script = NoScript /\ mom = NoMom
    /\ seenEnv = NoEnv /\ mc = InitCacheState /\ conn = Connected /\ flt = NoFilter
    /\ nodb = NoNoDb
    /\ \E asset \in Assets, class \in MarketClasses, side \in Sides, exit \in BOOLEAN,
          types \in MarketLists, outcomes \in OutcomeLists :
          rs = [pc |-> "drawn", asset |-> asset, class |-> class, side |-> side,
                exit |-> exit, cache |-> CacheWith(AssetName(asset), types, outcomes),
                trade |-> TradeInstruction(0, 0, 0, 0),
                decoded |-> DecodeSymbol(0), market_index |-> NoIndex,
                market |-> NoMarket, token_index |-> NoIndex, token_id |-> NoToken]

\* run_strategy builds the instruction: an entry, or the exit of a position
\* with the drawn asset, class and side.
ResolveEmit ==
    /\ rs.pc = "drawn"
    /\ rs' = [rs EXCEPT
                !.pc = "emitted",
                !.trade = IF rs.exit
                          THEN SellInstruction(Position(rs.asset, rs.class, rs.side, Zero, 0))
                          ELSE EntryInstruction(rs.asset, rs.class, rs.side)]
    /\ UNCHANGED otherThanResolve

\* run_execution decodes the symbol ..
ResolveDecode ==
    /\ rs.pc = "emitted"
    /\ rs' = [rs EXCEPT !.pc = "decoded", !.decoded = DecodeSymbol(rs.trade.symbol)]
    /\ UNCHANGED otherThanResolve

\* .. looks the market up in the cache ..
ResolveLookup ==
    /\ rs.pc = "decoded"
    /\ LET markets == CacheGet(rs.cache, AssetName(rs.decoded.asset_id))
           idx == FindMarket(markets, MarketTypeName(rs.decoded.market_mins))
       IN  rs' = [rs EXCEPT !.pc = IF idx = NoIndex THEN "no_market" ELSE "found",
                            !.market_index = idx,
                            !.market = IF idx = NoIndex THEN NoMarket ELSE markets[idx + 1]]
    /\ UNCHANGED otherThanResolve

\* .. and resolves the outcome token of the market it found.
ResolveToken ==
    /\ rs.pc = "found"
    /\ LET idx == TokenIndex(rs.market.outcomes, rs.trade.side)
       IN  rs' = [rs EXCEPT !.pc = IF idx = NoIndex THEN "no_token" ELSE "resolved",
                            !.token_index = idx,
                            !.token_id = IF idx = NoIndex THEN NoToken
                                         ELSE rs.market.token_ids[idx + 1]]
    /\ UNCHANGED otherThanResolve

NextResolve == ResolveEmit \/ ResolveDecode \/ ResolveLookup \/ ResolveToken
SpecResolve == InitResolve /\ [][NextResolve]_vars

(* ------- run_strategy_no_db beside run_strategy on the same feed -------- *)
\* BTC and ETH both move 10000 -> 10020 at t = 0, to 10040 at t = 10 and to
\* 10060 at t = 20: three entries per asset, then a refused fourth.
BothSymbols == <<"BTCUSDT", "ETHUSDT">>
BothRound(price, at) ==
    [k \in 1..Len(BothSymbols) |-> BinanceTick(BothSymbols[k], price, at, 0)]
BothAssetsFull ==
    [name |-> "both-assets-full",
     ticks |-> BothRound(10000, 0) \o BothRound(10020, 0)
               \o BothRound(10040, 10) \o BothRound(10060, 20)]
NoDbScripts == StopScripts \cup {BothAssetsFull}

\* run_strategy_no_db's locals before its loop, its output channel, and what
\* is recorded about it: the instructions its pushes got accepted, its last
\* iteration, whether run_strategy has triggered a stop-loss so far, and
\* whether the two output channels had the same room at every tick.
NoDbStart ==
    [running |-> TRUE,
     histories |-> [a \in Assets |-> <<>>], positions |-> <<>>,
     ltt |-> [a \in Assets |-> NoTime], chan |-> <<>>,
     accepted |-> <<>>, attempted |-> <<>>,
     last |-> NoDbLog(0, FALSE, FALSE, "none", "none", <<>>),
     ticks |-> 0, stopped |-> FALSE, same_room |-> TRUE]
InitNoDb ==
    /\ InitPipe /\ InitRisk /\ has_client = FALSE /\ mom = NoMom
    /\ seenEnv = NoEnv /\ mc = InitCacheState /\ conn = Connected /\ flt = NoFilter
    /\ rs = NoResolve
    /\ nodb = NoDbStart
    /\ script \in NoDbScripts

\* The two strategy loops take the same update at the same instant, each on
\* its own locals and its own output channel.
RunStrategyAndNoDb ==
    /\ RunStrategyPop(PopRest(chanA))
    /\ LET update == PopItem(chanA)
           r == NoDbTick(update, nodb.histories, nodb.positions, nodb.ltt, nodb.chan, clock)
       IN  nodb' = [running |-> TRUE,
                    histories |-> r.histories, positions |-> r.positions,
                    ltt |-> r.ltt, chan |-> r.chan,
                    accepted |-> nodb.accepted
                                 \o SubSeq(r.chan, Len(nodb.chan) + 1, Len(r.chan)),
                    attempted |-> nodb.attempted \o r.log.pushes,
                    last |-> r.log,
                    ticks |-> nodb.ticks + 1,
                    stopped |-> nodb.stopped \/ lastTick'.exits # <<>>,
                    same_room |-> nodb.same_room /\ Len(chanB) = Len(nodb.chan)]
    /\ UNCHANGED <<clock, has_client, nTicks, acceptedA, poppedB, lastExec,
                   session_pnl_cents, riskVars, script, mom, seenEnv, mc, conn, flt, rs>>

\* run_execution_no_db pops an instruction of run_strategy_no_db.
NoDbExecution ==
    /\ PopOk(nodb.chan)
    /\ nodb' = [nodb EXCEPT !.chan = PopRest(@)]
    /\ UNCHANGED <<chanA, chanB, price_histories, open_positions, last_trade_times,
                   clock, has_client, nTicks, acceptedA, poppedA, acceptedB, poppedB,
                   lastTick, lastExec, session_pnl_cents, riskVars, script, mom,
                   seenEnv, mc, conn, flt, rs>>

NextNoDb == ScriptTick \/ RunStrategyAndNoDb \/ RunExecution \/ NoDbExecution
SpecNoDb == InitNoDb /\ [][NextNoDb]_vars

(* ------------------ run_ingestion and its two connections --------------- *)
\* conn.binance and conn.poly are "waiting" (connect not started),
\* "connecting" (inside connect_with_retry), "connected" or "ended" (the
\* stream has yielded an error or None); conn.task is the ingestion task.
Arms == {"binance", "poly"}
otherThanConn ==
    <<chanA, chanB, price_histories, open_positions, last_trade_times, clock,
      has_client, nTicks, acceptedA, poppedA, acceptedB, poppedB, lastTick, lastExec,
      script, mom, session_pnl_cents, riskVars, seenEnv, mc, flt, rs, nodb>>
\* The select loop is entered once both connect_with_retry calls returned.
LoopRunning ==
    /\ conn.task = "running"
    /\ conn.binance \in {"connected", "ended"}
    /\ conn.poly \in {"connected", "ended"}

\* connect_with_retry: an attempt fails, the loop sleeps 5 s and tries again.
ConnectFail ==
    /\ \E arm \in Arms : conn[arm] = "connecting"
    /\ conn.failures < MaxConnectFailures
    /\ conn' = [conn EXCEPT !.failures = @ + 1]
    /\ UNCHANGED otherThanConn

\* connect_with_retry returns a stream; after Binance's the Polymarket
\* connect starts.
ConnectOk ==
    /\ \/ /\ conn.binance = "connecting"
          /\ conn' = [conn EXCEPT !.binance = "connected", !.poly = "connecting"]
       \/ /\ conn.poly = "connecting"
          /\ conn' = [conn EXCEPT !.poly = "connected"]
    /\ UNCHANGED otherThanConn

\* A stream fails while the loop runs: its next() yields an error, which the
\* arm ignores, and None from then on, which disables the arm.
StreamEnd ==
    /\ LoopRunning
    /\ \E arm \in Arms :
          /\ conn[arm] = "connected"
          /\ conn' = [conn EXCEPT ![arm] = "ended"]
    /\ UNCHANGED otherThanConn

\* select! with every arm disabled and no else arm panics.
SelectPanic ==
    /\ LoopRunning
    /\ conn.binance = "ended" /\ conn.poly = "ended"
    /\ conn' = [conn EXCEPT !.task = "panicked"]
    /\ UNCHANGED otherThanConn

\* The two arms of the loop, each fed by its own stream.
ConnBinance == LoopRunning /\ conn.binance = "connected" /\ IngestBinance
ConnPoly == LoopRunning /\ conn.poly = "connected" /\ IngestPoly

InitConn ==
    /\ InitPipe /\ InitRisk /\ has_client = FALSE
    /\ script = NoScript /\ mom = NoMom
    /\ seenEnv = NoEnv /\ mc = InitCacheState /\ flt = NoFilter
    /\ rs = NoResolve /\ nodb = NoNoDb
    /\ conn = [binance |-> "connecting", poly |-> "waiting", failures |-> 0,
               task |-> "running"]
NextConn ==
    ConnectFail \/ ConnectOk \/ StreamEnd \/ SelectPanic \/ ConnBinance \/ ConnPoly
    \/ RunStrategy \/ RunExecution
\* The polls of the two consuming loops: a step in which the stage's
\* consumer.pop() returns the front element.
StrategyPolls == PopOk(chanA) /\ poppedA' = Append(poppedA, PopItem(chanA))
ExecutionPolls == PopOk(chanB) /\ poppedB' = Append(poppedB, PopItem(chanB))
\* Every task keeps being polled, and a connect attempt eventually succeeds.
SpecConn ==
    /\ InitConn /\ [][NextConn]_vars
    /\ WF_vars(ConnectOk) /\ WF_vars(SelectPanic)
    /\ WF_poppedA(StrategyPolls) /\ WF_poppedB(ExecutionPolls)

(* ------------- run_strategy fed an update of an unknown symbol ---------- *)
\* run_strategy reads whatever its consumer yields; these feeds hand it, among
\* the updates of scenario 2, one update whose symbol has no price history.
UnknownIds == {0, 5, 7, 1001}
RawTick(id, price, at) == [update |-> MarketUpdate(id, price, WallClockMs(at)), at |-> at]
UnknownFeed(id, price) ==
    [name |-> "unknown",
     ticks |-> <<BinanceTick("BTCUSDT", 10000, 0, 0), BinanceTick("BTCUSDT", 10020, 60, 0),
                 RawTick(id, price, 700),
                 BinanceTick("BTCUSDT", 10000, 700, 0), BinanceTick("BTCUSDT", 9990, 840, 0)>>]
UnknownScripts == {UnknownFeed(id, price) : id \in UnknownIds, price \in {9000, 10020}}
InitUnknown ==
    /\ InitPipe /\ InitRisk /\ has_client = FALSE /\ mom = NoMom /\ InitObs
    /\ script \in UnknownScripts
SpecUnknown == InitUnknown /\ [][NextScript]_vars

(* ------------------- calculate_momentum on its own -------------------- *)
\* Histories handed to calculate_momentum: oldest first.
MomHistories ==
    {h \in UNION {[1..n -> [price_cents : MomPrices, timestamp_ms : MomTimes]] : n \in 0..MaxHist} :
        \A i \in 1..(Len(h) - 1) : h[i].timestamp_ms <= h[i + 1].timestamp_ms}
\* The two windows run_strategy asks for.
MomWindows == {MOMENTUM_WINDOW_60MIN_SECS * 1000, MOMENTUM_WINDOW_15MIN_SECS * 1000}

InitMomentum ==
    /\ InitPipe /\ InitRisk /\ has_client = FALSE /\ script = NoScript /\ InitObs
    /\ mom \in {[history |-> h, now_ms |-> n, window_ms |-> w, result |-> <<>>] :
                   h \in MomHistories, n \in MomTimes, w \in MomWindows}

ApplyMomentum ==
    /\ mom.result = <<>>
    /\ mom' = [mom EXCEPT !.result = calculate_momentum(mom.history, mom.now_ms, mom.window_ms)]
    /\ UNCHANGED <<chanA, chanB, price_histories, open_positions, last_trade_times, clock,
                   has_client, nTicks, acceptedA, poppedA, acceptedB, poppedB, lastTick,
                   lastExec, script, session_pnl_cents, riskVars, obsVars>>

NextMomentum == ApplyMomentum
SpecMomentum == InitMomentum /\ [][NextMomentum]_vars

Next == IngestBinance \/ IngestPoly \/ RunStrategy \/ RunExecution \/ AdvanceClock

Spec == Init /\ [][Next]_vars

(* ------------------------------- claims -------------------------------- *)
IsPrefix(s, t) == Len(s) <= Len(t) /\ SubSeq(t, 1, Len(s)) = s
Age(pos, now) == now - pos.entry_time

\* C1: on each channel the items returned by successful pops are exactly the
\* items accepted by successful pushes, in push order: what was accepted is
\* what was popped followed by what is still queued, nothing duplicated,
\* reordered or lost.
C1_FifoExact ==
    /\ acceptedA = poppedA \o chanA
    /\ acceptedB = poppedB \o chanB

C1_Witness ==
    /\ Len(poppedA) >= 2 /\ poppedA[1] # poppedA[2]
    /\ Len(poppedB) >= 2 /\ poppedB[1] # poppedB[2]

\* The i-th push of a strategy iteration succeeds exactly when the buffer,
\* after the earlier successful pushes of the iteration, is below capacity.
OkBefore(pushes, i) == Cardinality({j \in 1..(i - 1) : pushes[j].ok})
RECURSIVE OkInstrs(_)
OkInstrs(pushes) ==
    IF pushes = <<>> THEN <<>>
    ELSE (IF Head(pushes).ok THEN <<Head(pushes).instr>> ELSE <<>>) \o OkInstrs(Tail(pushes))

C2_State ==
    /\ Len(chanA) <= Capacity
    /\ Len(chanB) <= Capacity
    /\ (nTicks < MaxTicks => ENABLED IngestBinanceMsg /\ ENABLED IngestPolyMsg)

C2_Step ==
    /\ (nTicks' # nTicks /\ Len(chanA) = Capacity)
          => (chanA' = chanA /\ acceptedA' = acceptedA)
    /\ (poppedA' # poppedA)
          => /\ \A i \in 1..Len(lastTick'.pushes) :
                   lastTick'.pushes[i].ok
                      <=> Len(chanB) + OkBefore(lastTick'.pushes, i) < Capacity
             /\ chanB' = chanB \o OkInstrs(lastTick'.pushes)
             /\ acceptedB' = acceptedB \o OkInstrs(lastTick'.pushes)

\* C2: a push onto a full channel does not block and fails; the pushed item
\* is discarded, the queued items and their order are unchanged, no channel
\* ever holds more than its capacity, and the pushing stage goes on.
C2_FullPushDrops == [](C2_State) /\ [][C2_Step]_vars

C2_Witness ==
    /\ Len(chanA) = Capacity
    /\ nTicks > Len(acceptedA)
    /\ Len(acceptedA) = Len(poppedA) + Capacity

\* C3 (as claimed): a stop-loss exit whose push fails leaves its position in
\* open_positions.
C3_FailedExitKeepsPosition ==
    \A i \in 1..Len(lastTick.exits) :
        ~lastTick.exits[i].pushed => lastTick.exits[i].pos \in Range(open_positions)

\* C4: an entry whose push fails appends no position and does not start the
\* cooldown: after the iteration the open positions are those left by the
\* stop-loss phase followed by one position per accepted entry, and with no
\* accepted entry last_trade_times is unchanged.
C4_FailedEntryTracksNothing ==
    lastTick.known =>
        LET added == SubSeq(open_positions, Len(lastTick.after_exits) + 1,
                            Len(open_positions))
            types == (IF lastTick.entry60 = "ok" THEN <<60>> ELSE <<>>)
                     \o (IF lastTick.entry15 = "ok" THEN <<15>> ELSE <<>>)
        IN  /\ IsPrefix(lastTick.after_exits, open_positions)
            /\ [i \in 1..Len(added) |-> added[i].market_type] = types
            /\ (lastTick.entry60 # "ok" /\ lastTick.entry15 # "ok")
                  => last_trade_times[lastTick.asset] = lastTick.ltt_before

C4_Witness ==
    /\ lastTick.known
    /\ lastTick.entry60 = "full"
    /\ lastTick.entry15 = "full"

\* C5 (as claimed): an instruction that does not end in a submitted order
\* leaves the session P&L unchanged.
C5_PnlOnlyOnSubmit ==
    lastExec.outcome \notin {"none", "submitted"}
        => session_pnl_cents = lastExec.pnl_before

\* C6 (as claimed): the size of every submitted order is the trade size of
\* the tier current when the instruction is executed.
C6_OrderSizeIsTierSize ==
    lastExec.outcome = "submitted"
        => lastExec.order.size = trade_size(lastExec.tier_before)

\* The classification the claims state, by the totals' ranges.
TierOfTotal(t, tier) ==
    /\ (t >= 1000 => tier = "Aggressive")
    /\ (t <= -1000 => tier = "Conservative")
    /\ (t > -1000 /\ t < 1000 => tier = "Moderate")

\* C7: the tier is a function of the accumulated cents alone: >= +1000 is
\* Aggressive, <= -1000 Conservative, anything between Moderate; every tier a
\* caller was handed is the one of the total it was computed from.
C7_TierThresholds ==
    /\ TierOfTotal(session_pnl_cents, current_tier(session_pnl_cents))
    /\ \A c \in Callers :
          /\ ret[c].kind = "read" => TierOfTotal(ret[c].loaded, ret[c].tier)
          /\ ret[c].kind = "update" => TierOfTotal(ret[c].prev + ret[c].cents, ret[c].tier)

C7_Witness ==
    /\ ret["w1"].kind = "read" /\ ret["w1"].loaded = 1000
    /\ ret["w2"].kind = "read" /\ ret["w2"].loaded = 999

C8_Step ==
    \A c \in Callers :
        calls'[c] # calls[c] =>
            /\ session_pnl_cents' = session_pnl_cents + ret'[c].cents
            /\ ret'[c].tier = calculate_tier(session_pnl_cents + ret'[c].cents)

\* C8: update_pnl adds its delta in one step and returns the tier of the
\* total right after its own addition.
C8_ReturnsTierOfNewTotal == [][C8_Step]_vars

C8_Witness ==
    \E c \in Callers :
        /\ ret[c].kind = "update"
        /\ ret[c].tier # calculate_tier(ret[c].prev)
        /\ ret[c].prev # 0

\* C9: under every interleaving of the callers' update_pnl and current_tier
\* calls no update is lost: the accumulator is the sum of the deltas of the
\* calls made, and the tier read from it is the tier of that sum.
C9_NoLostUpdate ==
    /\ session_pnl_cents = applied
    /\ current_tier(session_pnl_cents) = calculate_tier(applied)

C9_Witness ==
    /\ \A c \in Callers : calls[c] = MaxCalls
    /\ \E c \in Callers : ret[c].kind = "update" /\ ret[c].loaded # ret[c].prev
    /\ session_pnl_cents = -1000

\* Age from which a position is evaluated for stop-loss, as the claim gives it.
SafeAge(market_type) == IF market_type = 15 THEN 720 ELSE 2700

\* C10: a position younger than 720 s (15-minute) or 2700 s (60-minute) emits
\* no exit and is not removed; the positions of the tick's asset that are at
\* or past that age are exactly the ones evaluated for stop-loss.
C10_StopLossGate ==
    lastTick.known =>
        /\ \A i \in 1..Len(lastTick.exits) :
              Age(lastTick.exits[i].pos, lastTick.now)
                  >= SafeAge(lastTick.exits[i].pos.market_type)
        /\ \A i \in 1..Len(lastTick.before) :
              LET pos == lastTick.before[i]
              IN  /\ Age(pos, lastTick.now) < SafeAge(pos.market_type)
                        => pos \in Range(open_positions)
                  /\ (pos.asset_symbol = lastTick.asset
                      /\ Age(pos, lastTick.now) >= SafeAge(pos.market_type))
                        <=> pos \in Range(lastTick.evaluated)

C10_Witness ==
    /\ lastTick.known
    /\ \E i \in 1..Len(lastTick.evaluated) :
          /\ lastTick.evaluated[i].market_type = 15
          /\ Age(lastTick.evaluated[i], lastTick.now) = 720
    /\ \E i \in 1..Len(lastTick.before) :
          LET pos == lastTick.before[i]
          IN  /\ pos.market_type = 60
              /\ pos.asset_symbol = lastTick.asset
              /\ ReversalTriggered(pos, lastTick.momentum_60)
              /\ pos \in Range(open_positions)

\* A push record of a strategy iteration that put an entry instruction on
\* channel B.
EntryEmitted(p) == p.ok /\ p.instr.symbol < 1000

\* C11 (as claimed): every entry instruction is emitted at least COOLDOWN_SECS
\* after the asset's previous successful entry: the cooldown had elapsed when
\* the tick started, and no other entry for the asset was emitted earlier in
\* the same tick.
C11_EntriesFiveSecondsApart ==
    \A i \in 1..Len(lastTick.pushes) :
        EntryEmitted(lastTick.pushes[i]) =>
            /\ \/ lastTick.ltt_before = NoTime
               \/ lastTick.now - lastTick.ltt_before >= COOLDOWN_SECS
            /\ \A j \in 1..(i - 1) : ~EntryEmitted(lastTick.pushes[j])

\* C12: no asset ever has more than MAX_POSITIONS open positions, also after
\* a tick in which the 60-minute and then the 15-minute entry are due; every
\* position belongs to one of the four assets, so at most 12 are open.
C12_PerAssetLimit ==
    /\ \A a \in Assets : AssetPositions(open_positions, a) <= MAX_POSITIONS
    /\ \A i \in 1..Len(open_positions) : open_positions[i].asset_symbol \in Assets
    /\ Len(open_positions) <= MAX_POSITIONS * Cardinality(Assets)

C12_Witness ==
    /\ lastTick.known /\ ~lastTick.gated
    /\ AssetPositions(lastTick.after_exits, lastTick.asset) = MAX_POSITIONS - 1
    /\ lastTick.entry60 = "ok"
    /\ FracAbsGe(lastTick.momentum_15, MOMENTUM_THRESHOLD_15MIN)
    /\ lastTick.entry15 = "none"
    /\ AssetPositions(open_positions, lastTick.asset) = MAX_POSITIONS

\* C13 (as claimed): no two open positions share asset and duration class.
C13_OnePositionPerSlot ==
    \A i, j \in 1..Len(open_positions) :
        i < j => ~(/\ open_positions[i].asset_symbol = open_positions[j].asset_symbol
                   /\ open_positions[i].market_type = open_positions[j].market_type)

\* Indices of the snapshots of the queried history inside the window.
MomInWindow ==
    {i \in 1..Len(mom.history) : mom.history[i].timestamp_ms >= mom.now_ms - mom.window_ms}

\* C14 (as claimed): calculate_momentum returns 0 on an empty history and on
\* one that does not reach back to the start of the window.
C14_UnderFilledWindowIsZero ==
    mom.result # <<>> =>
        ((\/ mom.history = <<>>
          \/ mom.history[1].timestamp_ms > mom.now_ms - mom.window_ms)
            => mom.result = Zero)

\* C15: calculate_momentum returns 0 on a history of one positive price, 1
\* when the latest price is twice the positive price of the first snapshot
\* in the window, and 0 when the first snapshot in the window has price 0.
C15_MomentumValues ==
    mom.result # <<>> =>
        /\ (/\ mom.history # <<>>
            /\ mom.history[1].price_cents > 0
            /\ \A i \in 1..Len(mom.history) :
                  mom.history[i].price_cents = mom.history[1].price_cents)
              => mom.result = Zero
        /\ MomInWindow # {} =>
              LET first == mom.history[Min(MomInWindow)].price_cents
                  latest == mom.history[Len(mom.history)].price_cents
              IN  /\ (first > 0 /\ latest = 2 * first) => mom.result = <<1, 1>>
                  /\ first = 0 => mom.result = Zero

C15_Witness ==
    /\ mom.result = <<1, 1>>
    /\ MomInWindow # {} /\ 1 \notin MomInWindow
    /\ mom.history[1].price_cents = 0

\* C16 (as claimed): after a tick with timestamp T is processed, its asset's
\* history holds no snapshot older than T - 900000 ms.
C16_RetentionAfterTick ==
    (poppedA # <<>> /\ poppedA[Len(poppedA)].symbol \in Assets) =>
        LET update == poppedA[Len(poppedA)]
            h == price_histories[update.symbol]
        IN  \A i \in 1..Len(h) : h[i].timestamp_ms >= update.ts - RETENTION_MS

\* C17 (as claimed): every asset's history has non-decreasing timestamps.
C17_HistoryOrdered ==
    \A a \in Assets :
        \A i \in 1..(Len(price_histories[a]) - 1) :
            price_histories[a][i].timestamp_ms <= price_histories[a][i + 1].timestamp_ms

\* The scripted feed was delivered without a drop and processed to the end,
\* and the last tick found room on channel B for all it emitted.
ScriptDone(name) ==
    /\ script.name = name /\ script.ticks = <<>>
    /\ chanA = <<>> /\ Len(poppedA) = nTicks
    /\ \A i \in 1..Len(lastTick.pushes) : lastTick.pushes[i].ok

\* C18 (as claimed): scenario 1 ends with exactly one instruction emitted,
\* an Up entry, and exactly one open position.
C18_ScenarioOneSingleEntry ==
    ScriptDone("scenario1") =>
        /\ Len(acceptedB) = 1
        /\ acceptedB[1].symbol < 1000 /\ acceptedB[1].side = 0
        /\ Len(open_positions) = 1

\* The position and tick of scenario 2: a BTC 15-minute Up position entered
\* at momentum +0.002, aged 13 minutes, and a 3-minute momentum of -0.001.
ScenarioTwoCase(pos) ==
    /\ lastTick.known /\ lastTick.asset = 1 /\ pos.asset_symbol = 1
    /\ pos.market_type = 15 /\ pos.side = 0
    /\ pos.entry_momentum = <<1, 500>>
    /\ Age(pos, lastTick.now) = 780
    /\ lastTick.momentum_15 = <<-1, 1000>>

\* C19: in scenario 2 the tick pushes exactly one exit instruction for the
\* position (symbol 1115, side Down), which channel B accepts when it has
\* room, and the position is no longer open afterwards.
C19_ScenarioTwoExit ==
    \A k \in 1..Len(lastTick.before) :
        LET pos == lastTick.before[k]
            sells == {i \in 1..Len(lastTick.pushes) : lastTick.pushes[i].instr.symbol >= 1000}
        IN  ScenarioTwoCase(pos) =>
              /\ Cardinality(sells) = 1
              /\ \A i \in sells :
                    /\ lastTick.pushes[i].instr = TradeInstruction(1115, 1, 40, TRADE_SIZE_DOLLARS)
                    /\ i = 1
                    /\ lastTick.pushes[i].ok =>
                          \E j \in 1..Len(acceptedB) : acceptedB[j] = lastTick.pushes[i].instr
              /\ Len(lastTick.exits) = 1 /\ lastTick.exits[1].pos = pos
              /\ pos \notin Range(open_positions)

C19_Witness ==
    /\ script.name = "scenario2"
    /\ \E k \in 1..Len(lastTick.before) : ScenarioTwoCase(lastTick.before[k])
    /\ Len(lastTick.exits) = 1 /\ lastTick.exits[1].pushed
    /\ \E i \in 1..Len(acceptedB) : acceptedB[i].symbol = 1115

\* The open positions of one asset, in list order.
PositionsOf(positions, a) ==
    LET OfAsset(p) == p.asset_symbol = a IN SelectSeq(positions, OfAsset)

C20_Step ==
    poppedA' # poppedA =>
        \A b \in Assets \ {poppedA'[Len(poppedA')].symbol} :
            /\ price_histories'[b] = price_histories[b]
            /\ last_trade_times'[b] = last_trade_times[b]
            /\ PositionsOf(open_positions', b) = PositionsOf(open_positions, b)

\* C20: processing a tick of one asset leaves the history, the open
\* positions and the cooldown timestamp of every other asset as they were.
C20_TickTouchesOwnAssetOnly == [][C20_Step]_vars

C20_Witness ==
    /\ script.name = "two-assets"
    /\ lastTick.known /\ lastTick.exits # <<>>
    /\ \E i \in 1..Len(open_positions) :
          LET pos == open_positions[i]
          IN  /\ pos.asset_symbol # lastTick.asset
              /\ ~InSafeZone(pos, lastTick.now)
              /\ ReversalTriggered(pos, lastTick.momentum_15)
              /\ price_histories[pos.asset_symbol] # <<>>
              /\ last_trade_times[pos.asset_symbol] # NoTime

\* C21: when run_strategy pops an update whose asset id is not one of 1..4,
\* that step leaves every price history, the open positions and the cooldown
\* timestamps as they were, pushes nothing into the strategy->execution
\* channel, and consumes exactly that update, so that the next pop yields
\* the update behind it.
C21_Step ==
    (PopOk(chanA) /\ PopItem(chanA).symbol \notin Assets /\ poppedA' # poppedA)
    => /\ price_histories' = price_histories
       /\ open_positions' = open_positions
       /\ last_trade_times' = last_trade_times
       /\ chanB' = chanB
       /\ acceptedB' = acceptedB
       /\ poppedA' = Append(poppedA, PopItem(chanA))
       /\ chanA' = Tail(chanA)
C21_UnknownAssetIgnored == [][C21_Step]_vars
\* An unknown update was just skipped while a position was open, a cooldown
\* timestamp set and a history filled.
C21_Witness ==
    /\ poppedA # <<>>
    /\ poppedA[Len(poppedA)].symbol \notin Assets
    /\ lastTick.known = FALSE /\ lastTick.asset = poppedA[Len(poppedA)].symbol
    /\ open_positions # <<>>
    /\ last_trade_times[1] # NoTime
    /\ price_histories[1] # <<>>

\* C22: every update run_ingestion pushed carries the asset id of an exchange
\* symbol that was delivered, with a price of that symbol: with only BTCUSDT
\* trades on the exchange stream, every accepted update is a BTC update at a
\* BTC price.
C22_TickIdIsItsSymbol ==
    \A i \in 1..Len(acceptedA) :
        /\ acceptedA[i].symbol \in {get_symbol_id(sym) : sym \in TickSymbols}
        /\ acceptedA[i].price \in TickPrices
\* C23: for every instruction run_execution pops, place_order is called at
\* most once, the cache lookup and the order-book fetch are made at most
\* once, the instruction is consumed and not pushed back into either
\* channel, and the channel's next instruction is the one the next
\* iteration polls.
C23_Step ==
    poppedB' # poppedB
    => /\ PopOk(chanB)
       /\ poppedB' = Append(poppedB, PopItem(chanB))
       /\ chanB' = Tail(chanB)
       /\ acceptedB' = acceptedB
       /\ chanA' = chanA /\ acceptedA' = acceptedA
       /\ lastExec'.calls.submit <= 1
       /\ lastExec'.calls.resolve <= 1
       /\ lastExec'.calls.fetch <= 1
C24_NoOrderWithoutData ==
    lastExec.outcome # "none"
    => ((~has_client \/ ~seenEnv.found_market \/ ~seenEnv.token_found
           \/ seenEnv.book = NoBook)
        => /\ lastExec.order = NoOrder
           /\ lastExec.calls.submit = 0
           /\ lastExec.outcome \in {"no_client", "no_market", "no_token", "no_book"}
           /\ Len(poppedB) + Len(chanB) = Len(acceptedB))
\* With a client, a market and a token, the order book had no data, and the
\* next instruction is waiting.
C24_Witness ==
    /\ has_client /\ seenEnv.found_market /\ seenEnv.token_found
    /\ seenEnv.book = NoBook
    /\ lastExec.outcome = "no_book"
    /\ chanB # <<>>

\* The filters as the claim states them, on milli-dollar prices.
ClaimedFilter(price, bid, ask) ==
    LET upside_low == IF price < 0 THEN TRUE ELSE (1000 - price) * 100 < 30 * price
        spread_wide == IF bid <= 0 THEN TRUE ELSE (ask - bid) * 100 > 10 * bid
    IN  IF price * 100 > 65 * 1000 THEN "price too high"
        ELSE IF upside_low THEN "upside too low"
        ELSE IF spread_wide THEN "spread too wide"
        ELSE "ok"

C26_BuyAtAskSellAtBid ==
    lastExec.outcome = "submitted"
    => lastExec.order.price = (IF lastExec.order.side = "SELL"
                               THEN seenEnv.book[1] ELSE seenEnv.book[2])

\* Cents of the profit at the fill price, `size / fill - size`.
FillProfitCents(size, fill) == DollarsToCents((size * 1000000) \div fill - size * 1000)

\* C27 (as claimed): after a submitted order the delta added to the session
\* P&L is the profit at the fill price of the order.
C27_PnlFromFillPrice ==
    lastExec.outcome = "submitted"
    => lastExec.cents = FillProfitCents(lastExec.order.size, lastExec.order.price)
\* A map all of whose entries come from one refresh.
OneRefresh(m) == \E g \in 0..MaxRefresh : \A a \in CacheAssets : m[a] \in {0, g}
C28_State ==
    /\ OneRefresh(mc.cache)
    /\ \A i \in 1..Len(mc.rd.seen) :
          OneRefresh(mc.rd.seen[i]) /\ mc.rd.seen[i] = mc.rd.seen[1]
C28_Step ==
    /\ mc'.cache # mc.cache
       => /\ mc.last = "ok"
          /\ mc.upd.pc = "building" /\ mc.upd.todo = {}
          /\ mc'.cache = mc.upd.new_cache
          /\ mc.readers = 0
    /\ (mc'.refreshes # mc.refreshes /\ mc'.last # "ok")
       => mc'.cache = mc.cache /\ mc'.upd = mc.upd
\* C28: every map the reader sees while it holds the read lock is the map of
\* one refresh, and the same map at each of its reads; the cache changes
\* only by the assignment of a completely built map while no reader holds
\* the lock; a refresh that fails or does not parse changes nothing.
C28_AtomicReplace == []C28_State /\ [][C28_Step]_vars
\* The reader is between its two reads of a non-empty cache while the updater
\* holds a different, completely built map and waits for the write lock.
C28_Witness ==
    /\ mc.rd.pc = "got"
    /\ mc.cache # EmptyCache
    /\ mc.upd.pc = "building" /\ mc.upd.todo = {}
    /\ mc.upd.new_cache # mc.cache
    /\ mc.upd.new_cache # EmptyCache
\* C29 (as claimed): whenever a stream of the running ingestion loop has
\* ended, that stream is eventually connected again.
C29_ReconnectsAfterFailure ==
    \A arm \in Arms : (conn[arm] = "ended") ~> (conn[arm] = "connected")
\* Most instructions one update can make run_strategy push: one exit per
\* open position of the asset and two entries.
MaxInstrPerTick == 4
C30_State ==
    /\ acceptedA = poppedA \o chanA
    /\ acceptedB = poppedB \o chanB
C30_Step ==
    /\ acceptedB' # acceptedB
       => PopOk(chanA) /\ poppedA' = Append(poppedA, PopItem(chanA)) /\ chanA' = Tail(chanA)
    /\ poppedA' # poppedA => poppedA' = Append(poppedA, PopItem(chanA))
    /\ poppedB' # poppedB => poppedB' = Append(poppedB, PopItem(chanB))
\* C30: with the strategy and the execution stage scheduled again and again,
\* the n-th update accepted into the first channel is eventually the n-th
\* update the strategy pops, and the n-th instruction accepted into the
\* second channel eventually the n-th the execution stage pops; what was
\* accepted is at every moment what was popped followed by what waits, so
\* nothing is popped twice; and an instruction enters the second channel
\* only in the step that pops an update from the first.
C30_EventuallyPoppedOnce ==
    /\ []C30_State
    /\ [][C30_Step]_vars
    /\ \A n \in 1..MaxTicks : (Len(acceptedA) >= n) ~> (Len(poppedA) >= n)
    /\ \A n \in 1..(MaxInstrPerTick * MaxTicks) :
          (Len(acceptedB) >= n) ~> (Len(poppedB) >= n)
\* Updates and instructions went through both channels, an update was
\* dropped at a full buffer, and both channels are drained.
C30_Witness ==
    /\ Len(poppedA) >= 2 /\ Len(poppedB) >= 2
    /\ nTicks > Len(acceptedA)
    /\ poppedA = acceptedA /\ poppedB = acceptedB
\* The reversal of a position against the momentum of its class, as the
\* claim states it: entry - current for Up, current - entry for Down.
ClaimedCurrent(pos, log) == IF pos.market_type = 60 THEN log.momentum_60 ELSE log.momentum_15
ClaimedThreshold(pos) == IF pos.market_type = 60 THEN <<3, 1000>> ELSE <<2, 1000>>
ClaimedReversalHit(pos, log) ==
    LET e == pos.entry_momentum
        c == ClaimedCurrent(pos, log)
        t == ClaimedThreshold(pos)
        num == IF pos.side = 0 THEN e[1] * c[2] - c[1] * e[2] ELSE c[1] * e[2] - e[1] * c[2]
    IN  num * t[2] >= t[1] * e[2] * c[2]
ClaimedExit(pos) ==
    [symbol |-> pos.asset_symbol * 100 + pos.market_type + 1000,
     side |-> 1 - pos.side, price_cents |-> 40, size |-> 10]
\* The positions of seq at the indices not in drop, in order.
Without(seq, drop) ==
    LET F[i \in 0..Len(seq)] ==
            IF i = 0 THEN <<>>
            ELSE IF i \in drop THEN F[i - 1] ELSE Append(F[i - 1], seq[i])
    IN  F[Len(seq)]
\* C31: among the positions of the tick's asset that are in their danger
\* zone, exactly those whose reversal reaches the threshold of their class
\* (0.002 for 15, 0.003 for 60; 3-minute momentum for 15, 10-minute for 60)
\* get an exit instruction asset*100 + class + 1000 with the opposite side
\* pushed, in the order of the positions, and exactly those are removed
\* from the open positions.
C31_ReversalExits ==
    lastTick.known =>
        LET log == lastTick
            hit == {i \in 1..Len(log.before) :
                      /\ log.before[i].asset_symbol = log.asset
                      /\ ~InSafeZone(log.before[i], log.now)
                      /\ ClaimedReversalHit(log.before[i], log)}
        IN  /\ Len(log.exits) = Cardinality(hit)
            /\ \A k \in 1..Len(log.exits) :
                  /\ \E i \in hit : log.exits[k].pos = log.before[i]
                  /\ log.pushes[k].instr = ClaimedExit(log.exits[k].pos)
                  /\ log.pushes[k].ok => log.pushes[k].instr \in Range(acceptedB)
            /\ log.after_exits = Without(log.before, hit)
\* A tick closed a 60-minute and a 15-minute position together.
C31_Witness ==
    /\ lastTick.known
    /\ Len(lastTick.exits) = 2
    /\ lastTick.exits[1].pos.market_type # lastTick.exits[2].pos.market_type
    /\ lastTick.after_exits = <<>>
    /\ lastTick.pushes[1].ok
\* The entry attempts of the last tick: what it pushed after its exits.
EntryPushes(log) == SubSeq(log.pushes, Len(log.exits) + 1, Len(log.pushes))
ClaimedEntryMomentum(instr, log) ==
    IF instr.symbol % 100 = 60 THEN log.momentum_60 ELSE log.momentum_15
\* |m| >= 0.0005 for class 60, |m| >= 0.001 for class 15.
ClaimedEntryAllowed(instr, log) ==
    LET m == ClaimedEntryMomentum(instr, log)
    IN  IF instr.symbol % 100 = 60
        THEN Abs(m[1]) * 10000 >= 5 * m[2]
        ELSE Abs(m[1]) * 1000 >= 1 * m[2]
\* C32: every entry instruction a tick pushes is asset*100 + 60 with the
\* 10-minute momentum at least 0.0005 in absolute value, or asset*100 + 15
\* with the 3-minute momentum at least 0.001; its side is 0 when that
\* momentum is positive and 1 otherwise; and the positions appended are, in
\* order, one per accepted entry, with that asset, class, side and momentum.
C32_EntryThresholdsAndSide ==
    lastTick.known =>
        LET log == lastTick
            entries == EntryPushes(log)
            oks == SelectSeq(entries, LAMBDA e : e.ok)
            added == SubSeq(open_positions, Len(log.after_exits) + 1, Len(open_positions))
        IN  /\ \A k \in 1..Len(entries) :
                  LET instr == entries[k].instr
                      m == ClaimedEntryMomentum(instr, log)
                  IN  /\ instr.symbol \in {log.asset * 100 + 60, log.asset * 100 + 15}
                      /\ ClaimedEntryAllowed(instr, log)
                      /\ instr.side = (IF m[1] > 0 THEN 0 ELSE 1)
            /\ (log.entry60 # "none") = (\E k \in 1..Len(entries) :
                                            entries[k].instr.symbol = log.asset * 100 + 60)
            /\ (log.entry15 # "none") = (\E k \in 1..Len(entries) :
                                            entries[k].instr.symbol = log.asset * 100 + 15)
            /\ Len(added) = Len(oks)
            /\ \A k \in 1..Len(oks) :
                  /\ added[k].asset_symbol = log.asset
                  /\ added[k].market_type = oks[k].instr.symbol % 100
                  /\ added[k].side = oks[k].instr.side
                  /\ added[k].entry_momentum = ClaimedEntryMomentum(oks[k].instr, log)
\* A fall entered Down in both classes in one tick.
C32_Witness ==
    /\ lastTick.known
    /\ lastTick.entry60 = "ok" /\ lastTick.entry15 = "ok"
    /\ lastTick.momentum_15[1] < 0
    /\ Len(open_positions) >= 2
    /\ open_positions[Len(open_positions)].side = 1
    /\ open_positions[Len(open_positions)].market_type = 15
\* The positions of the tick's asset that are due for the stop-loss check.
DueForStopLoss(log) ==
    SelectSeq(log.before,
              LAMBDA pos : pos.asset_symbol = log.asset
                           /\ log.now - pos.entry_time
                                >= MarketDuration(pos.market_type) - DangerZone(pos.market_type))
ClaimedCooling(log) == log.ltt_before # NoTime /\ log.now - log.ltt_before < 5
\* C33: in a tick of a known asset the stop-loss check covers every due
\* position of the asset whether or not the asset is in cooldown or at its
\* limit; the exit pushes of the tick precede its entry pushes; and the
\* entry checks are closed exactly by the cooldown or by three positions of
\* the asset counted after the closed ones were removed.
C33_ExitsBeforeEntryChecks ==
    lastTick.known =>
        LET log == lastTick
        IN  /\ log.evaluated = DueForStopLoss(log)
            /\ \A k \in 1..Len(log.pushes) :
                  (k <= Len(log.exits)) = (log.pushes[k].instr.symbol >= 1000)
            /\ log.gated = (ClaimedCooling(log)
                            \/ AssetPositions(log.after_exits, log.asset) >= 3)
            /\ log.gated => EntryPushes(log) = <<>>
\* The asset held three positions, a stop-loss closed one of them, and the
\* same tick made an entry into the freed slot.
C33_Witness ==
    /\ lastTick.known
    /\ AssetPositions(lastTick.before, lastTick.asset) = 3
    /\ Len(lastTick.exits) = 1
    /\ ~lastTick.gated
    /\ lastTick.entry60 = "ok"
    /\ lastTick.pushes[1].instr.symbol >= 1000

\* Positions whose market has ended by the tick.
Expired(pos, now) == now - pos.entry_time > MarketDuration(pos.market_type)
C39_State ==
    lastTick.known =>
        LET log == lastTick
        IN  /\ \A i \in 1..Len(log.before) :
                  (log.before[i].asset_symbol = log.asset /\ Expired(log.before[i], log.now))
                  => log.before[i] \in Range(log.evaluated)
            /\ Len(log.after_exits) = Len(log.before) - Len(log.exits)
            /\ AssetPositions(log.after_exits, log.asset) >= 3 => EntryPushes(log) = <<>>
C39_Step ==
    \A i \in 1..Len(open_positions) :
        open_positions[i] \notin Range(open_positions')
        => \E k \in 1..Len(lastTick'.exits) : lastTick'.exits[k].pos = open_positions[i]
C38_State ==
    /\ session_pnl_cents >= 0
    /\ current_tier(session_pnl_cents) # "Conservative"
    /\ poppedB # <<>>
       => /\ lastExec.cents = (IF poppedB[Len(poppedB)].symbol >= 1000 THEN 1500 ELSE 1000)
          /\ session_pnl_cents = lastExec.pnl_before + lastExec.cents
          /\ lastExec.tier_after = "Aggressive"
          /\ current_tier(session_pnl_cents) = "Aggressive"
C38_Step ==
    /\ session_pnl_cents' >= session_pnl_cents
    /\ poppedB' # poppedB => session_pnl_cents' > session_pnl_cents
\* C38: the session P&L never decreases; every instruction the execution
\* stage pops adds 1000 cents if it is an entry and 1500 if it is an exit,
\* whatever became of it, so the tier is Aggressive once an instruction was
\* popped and never Conservative.
C38_PnlOnlyGrows == []C38_State /\ [][C38_Step]_vars
\* Entries and then an exit were executed without a client: no order was
\* placed, and the exit raised the session P&L by 1500 cents.
C38_Witness ==
    /\ ~has_client
    /\ Len(poppedB) >= 2
    /\ poppedB[Len(poppedB)].symbol >= 1000
    /\ lastExec.outcome = "no_client"
    /\ session_pnl_cents = 1000 * (Len(poppedB) - 1) + 1500
\* The symbol the claim gives a triple: asset*100 + class, +1000 for an exit.
ClaimedSymbol(asset, class, exit) == asset * 100 + class + (IF exit THEN 1000 ELSE 0)
\* C34: the symbol run_strategy builds for an asset in 1..4, a class in
\* {15, 60} and an exit flag is asset*100 + class (+1000 for an exit), and
\* run_execution decodes it to that asset, class and flag; two different
\* triples never get the same symbol.
C34_SymbolRoundTrip ==
    /\ rs.pc \notin {"none", "drawn"}
       => rs.trade.symbol = ClaimedSymbol(rs.asset, rs.class, rs.exit)
    /\ rs.pc \notin {"none", "drawn", "emitted"}
       => /\ rs.decoded.asset_id = rs.asset
          /\ rs.decoded.market_mins = rs.class
          /\ rs.decoded.is_sell = rs.exit
    /\ \A a1, a2 \in Assets, c1, c2 \in MarketClasses, s1, s2 \in Sides :
          /\ (EntryInstruction(a1, c1, s1).symbol = EntryInstruction(a2, c2, s2).symbol
               => a1 = a2 /\ c1 = c2)
          /\ (SellInstruction(Position(a1, c1, s1, Zero, 0)).symbol
                 = SellInstruction(Position(a2, c2, s2, Zero, 0)).symbol
               => a1 = a2 /\ c1 = c2)
          /\ EntryInstruction(a1, c1, s1).symbol
               # SellInstruction(Position(a2, c2, s2, Zero, 0)).symbol
\* The exit of an XRP 60-minute position was decoded.
C34_Witness ==
    /\ rs.pc = "decoded"
    /\ rs.exit /\ rs.asset = 4 /\ rs.class = 60
    /\ rs.trade.symbol = 1460
    /\ rs.decoded = [is_sell |-> TRUE, asset_id |-> 4, market_mins |-> 60]

\* The market the claim has the lookup choose from a list, 0 for none: the
\* first of the instruction's class, else the first DAILY one.
ClaimedMarket(list, class) ==
    LET wanted == IF class = 15 THEN "15-MIN" ELSE "60-MIN"
        exact == {i \in 1..Len(list) : list[i].market_type = wanted}
        daily == {i \in 1..Len(list) : list[i].market_type = "DAILY"}
    IN  IF exact # {} THEN Min(exact) ELSE IF daily # {} THEN Min(daily) ELSE 0
\* C35: the lookup chooses, from the list cached for the instruction's
\* asset, the first market of the instruction's class even if a DAILY market
\* stands before it, the first DAILY market only if the list has none of
\* that class, and nothing if it has neither.
C35_LookupOrder ==
    rs.pc \in {"found", "no_market", "resolved", "no_token"}
    => LET list == rs.cache[AssetName(rs.asset)]
           k == ClaimedMarket(list, rs.class)
       IN  /\ (k = 0) = (rs.market = NoMarket)
           /\ (k = 0) = (rs.pc = "no_market")
           /\ k # 0 => rs.market = list[k]
\* A list led by a DAILY market, with two markets of the class: the first
\* of those two was chosen.
C35_Witness ==
    /\ rs.pc = "found"
    /\ rs.class = 15
    /\ Len(rs.cache[AssetName(rs.asset)]) = 3
    /\ rs.cache[AssetName(rs.asset)][1].market_type = "DAILY"
    /\ rs.market = rs.cache[AssetName(rs.asset)][2]

\* 1-based positions of the labels equal to one of the given spellings.
LabelHits(outcomes, spellings) == {i \in 1..Len(outcomes) : outcomes[i] \in spellings}
\* The token the claim resolves, as a 1-based position, 0 for none.
ClaimedToken(outcomes, side) ==
    LET exact == LabelHits(outcomes, IF side = 0 THEN {"Up", "UP", "up"}
                                     ELSE {"Down", "DOWN", "down"})
        synonym == LabelHits(outcomes, IF side = 0 THEN {"Yes", "YES", "yes"}
                                       ELSE {"No", "NO", "no"})
    IN  IF exact # {} THEN Min(exact)
        ELSE IF synonym # {} THEN Min(synonym)
        ELSE IF side = 0 /\ Len(outcomes) >= 1 THEN 1
        ELSE IF side = 1 /\ Len(outcomes) >= 2 THEN 2
        ELSE 0
\* C36: the token resolved for an instruction is the first outcome labelled
\* Up (side 0) or Down (side 1) in any letter case, else the first labelled
\* Yes or No, else the first outcome for side 0 and the second for side 1 if
\* the market has that many, else none; and a resolved index is an index of
\* the market's token ids.
C36_TokenChain ==
    rs.pc \in {"resolved", "no_token"}
    => LET k == ClaimedToken(rs.market.outcomes, rs.trade.side)
       IN  /\ (k = 0) = (rs.pc = "no_token")
           /\ rs.token_index = k - 1
           /\ k # 0 => /\ rs.token_index \in 0..(Len(rs.market.token_ids) - 1)
                        /\ rs.token_id = rs.market.token_ids[k]
\* Outcomes Yes, Up and side 0: the Up label, second in the list, was taken.
C36_Witness ==
    /\ rs.pc = "resolved"
    /\ rs.market.outcomes = <<"Yes", "Up">>
    /\ rs.trade.side = 0
    /\ rs.token_index = 1

\* C37 (as claimed): in a market with the outcomes Up and Down, the exit of
\* a position resolves to the token the position's entry resolved to.
C37_ExitSellsEntryToken ==
    (rs.pc = "resolved" /\ rs.exit /\ rs.market.outcomes = <<"Up", "Down">>)
    => rs.token_index
         = TokenIndex(rs.market.outcomes, EntryInstruction(rs.asset, rs.class, rs.side).side)
\* The accepted entries of run_strategy_no_db for one asset.
NoDbEntriesOf(asset) ==
    Cardinality({i \in 1..Len(nodb.accepted) : nodb.accepted[i].symbol \div 100 = asset})
\* What the two loops decided on their last iteration is the same.
SameEntryDecisions ==
    /\ nodb.last.asset = lastTick.asset
    /\ nodb.last.gated = lastTick.gated
    /\ nodb.last.entry60 = lastTick.entry60
    /\ nodb.last.entry15 = lastTick.entry15
    /\ nodb.last.pushes = lastTick.pushes
C40_State ==
    nodb.running
    => /\ \A i \in 1..Len(nodb.attempted) : nodb.attempted[i].instr.symbol < 1000
       /\ Len(nodb.accepted) = Len(nodb.positions)
       /\ \A asset \in Assets : NoDbEntriesOf(asset) <= 3
       /\ Len(nodb.accepted) <= 12
       /\ (nodb.ticks > 0 /\ ~nodb.stopped /\ nodb.same_room)
          => /\ SameEntryDecisions
             /\ nodb.accepted = acceptedB
             /\ nodb.positions = open_positions
C40_Step ==
    nodb.running
    => /\ Len(nodb'.positions) >= Len(nodb.positions)
       /\ SubSeq(nodb'.positions, 1, Len(nodb.positions)) = nodb.positions
\* C40: run_strategy_no_db never attempts an exit instruction and never
\* removes a position, so at most 3 entries per asset and 12 in all are ever
\* accepted from it; and fed the same updates at the same instants, with the
\* same room in the output channel, its entry decisions are those of
\* run_strategy for as long as run_strategy has triggered no stop-loss.
C40_NoDbNeverExits == []C40_State /\ [][C40_Step]_vars
\* run_strategy has closed a BTC position on this tick and entered again,
\* while run_strategy_no_db, still holding its three, refuses.
C40_Witness ==
    /\ nodb.running /\ nodb.stopped /\ nodb.same_room
    /\ lastTick.exits # <<>> /\ lastTick.entry60 = "ok" /\ ~lastTick.gated
    /\ nodb.last.asset = lastTick.asset
    /\ nodb.last.gated /\ nodb.last.pushes = <<>>
    /\ NoDbEntriesOf(lastTick.asset) = 3
====
